---- MODULE Spec2Model ----
(***************************************************************************)
(* Form builder (src/app/page.tsx): the tree of forms and elements held in *)
(* React state, the handlers that edit it, and the two schema builders     *)
(* (generateJsonSchema, generateUiSchema) that are recomputed from it on   *)
(* every render.                                                           *)
(*                                                                         *)
(* Strings are sequences of UTF-16 code units, so that key derivation      *)
(* (lower-casing, whitespace collapsing, the 32-bit rolling hash, the hex  *)
(* rendering) and path splitting are computed as the code computes them.   *)
(* FormField objects are mutable and shared by reference, so they live in  *)
(* a heap indexed by object identity; FormElement objects and the element  *)
(* arrays are never mutated in place and are modelled as values.           *)
(***************************************************************************)
EXTENDS Integers, Sequences, FiniteSets, TLC

(***************************************************************************)
(* Strings                                                                 *)
(***************************************************************************)

\* "#/properties/"
StrPropsPrefix == <<35, 47, 112, 114, 111, 112, 101, 114, 116, 105, 101, 115, 47>>
\* "/properties/"
StrSlashProps == <<47, 112, 114, 111, 112, 101, 114, 116, 105, 101, 115, 47>>
\* "Form"
StrForm == <<70, 111, 114, 109>>
\* "String", "Number", "Boolean", "Date", "Object", "Array"
StrString == <<83, 116, 114, 105, 110, 103>>
StrNumber == <<78, 117, 109, 98, 101, 114>>
StrBoolean == <<66, 111, 111, 108, 101, 97, 110>>
StrDate == <<68, 97, 116, 101>>
StrObject == <<79, 98, 106, 101, 99, 116>>
StrArray == <<65, 114, 114, 97, 121>>
\* " ", "-", ".", "/"
ChSpace == <<32>>
ChHyphen == <<45>>
ChDot == <<46>>
ChSlash == <<47>>

\* String.prototype.toLowerCase follows the Unicode case mappings, and what
\* it gives depends on the Unicode data built into the engine.  The three
\* tables are those of Unicode 17.0, the data of the current Node.js releases.
\* The code points it changes, one to one, as <<first, last, step, shift>>:
\* every step-th code point from first to last goes to itself plus shift.
LowerRanges ==
  << <<65, 90, 1, 32>>, <<192, 214, 1, 32>>, <<216, 222, 1, 32>>, <<256, 302, 2, 1>>,
     <<306, 310, 2, 1>>, <<313, 327, 2, 1>>, <<330, 374, 2, 1>>, <<376, 376, 1, -121>>,
     <<377, 381, 2, 1>>, <<385, 385, 1, 210>>, <<386, 388, 2, 1>>, <<390, 390, 1, 206>>,
     <<391, 391, 1, 1>>, <<393, 394, 1, 205>>, <<395, 395, 1, 1>>, <<398, 398, 1, 79>>,
     <<399, 399, 1, 202>>, <<400, 400, 1, 203>>, <<401, 401, 1, 1>>, <<403, 403, 1, 205>>,
     <<404, 404, 1, 207>>, <<406, 406, 1, 211>>, <<407, 407, 1, 209>>, <<408, 408, 1, 1>>,
     <<412, 412, 1, 211>>, <<413, 413, 1, 213>>, <<415, 415, 1, 214>>, <<416, 420, 2, 1>>,
     <<422, 422, 1, 218>>, <<423, 423, 1, 1>>, <<425, 425, 1, 218>>, <<428, 428, 1, 1>>,
     <<430, 430, 1, 218>>, <<431, 431, 1, 1>>, <<433, 434, 1, 217>>, <<435, 437, 2, 1>>,
     <<439, 439, 1, 219>>, <<440, 440, 1, 1>>, <<444, 444, 1, 1>>, <<452, 452, 1, 2>>,
     <<453, 453, 1, 1>>, <<455, 455, 1, 2>>, <<456, 456, 1, 1>>, <<458, 458, 1, 2>>,
     <<459, 475, 2, 1>>, <<478, 494, 2, 1>>, <<497, 497, 1, 2>>, <<498, 500, 2, 1>>,
     <<502, 502, 1, -97>>, <<503, 503, 1, -56>>, <<504, 542, 2, 1>>, <<544, 544, 1, -130>>,
     <<546, 562, 2, 1>>, <<570, 570, 1, 10795>>, <<571, 571, 1, 1>>, <<573, 573, 1, -163>>,
     <<574, 574, 1, 10792>>, <<577, 577, 1, 1>>, <<579, 579, 1, -195>>,
     <<580, 580, 1, 69>>, <<581, 581, 1, 71>>, <<582, 590, 2, 1>>, <<880, 882, 2, 1>>,
     <<886, 886, 1, 1>>, <<895, 895, 1, 116>>, <<902, 902, 1, 38>>, <<904, 906, 1, 37>>,
     <<908, 908, 1, 64>>, <<910, 911, 1, 63>>, <<913, 929, 1, 32>>, <<932, 939, 1, 32>>,
     <<975, 975, 1, 8>>, <<984, 1006, 2, 1>>, <<1012, 1012, 1, -60>>, <<1015, 1015, 1, 1>>,
     <<1017, 1017, 1, -7>>, <<1018, 1018, 1, 1>>, <<1021, 1023, 1, -130>>,
     <<1024, 1039, 1, 80>>, <<1040, 1071, 1, 32>>, <<1120, 1152, 2, 1>>,
     <<1162, 1214, 2, 1>>, <<1216, 1216, 1, 15>>, <<1217, 1229, 2, 1>>,
     <<1232, 1326, 2, 1>>, <<1329, 1366, 1, 48>>, <<4256, 4293, 1, 7264>>,
     <<4295, 4295, 1, 7264>>, <<4301, 4301, 1, 7264>>, <<5024, 5103, 1, 38864>>,
     <<5104, 5109, 1, 8>>, <<7305, 7305, 1, 1>>, <<7312, 7354, 1, -3008>>,
     <<7357, 7359, 1, -3008>>, <<7680, 7828, 2, 1>>, <<7838, 7838, 1, -7615>>,
     <<7840, 7934, 2, 1>>, <<7944, 7951, 1, -8>>, <<7960, 7965, 1, -8>>,
     <<7976, 7983, 1, -8>>, <<7992, 7999, 1, -8>>, <<8008, 8013, 1, -8>>,
     <<8025, 8031, 2, -8>>, <<8040, 8047, 1, -8>>, <<8072, 8079, 1, -8>>,
     <<8088, 8095, 1, -8>>, <<8104, 8111, 1, -8>>, <<8120, 8121, 1, -8>>,
     <<8122, 8123, 1, -74>>, <<8124, 8124, 1, -9>>, <<8136, 8139, 1, -86>>,
     <<8140, 8140, 1, -9>>, <<8152, 8153, 1, -8>>, <<8154, 8155, 1, -100>>,
     <<8168, 8169, 1, -8>>, <<8170, 8171, 1, -112>>, <<8172, 8172, 1, -7>>,
     <<8184, 8185, 1, -128>>, <<8186, 8187, 1, -126>>, <<8188, 8188, 1, -9>>,
     <<8486, 8486, 1, -7517>>, <<8490, 8490, 1, -8383>>, <<8491, 8491, 1, -8262>>,
     <<8498, 8498, 1, 28>>, <<8544, 8559, 1, 16>>, <<8579, 8579, 1, 1>>,
     <<9398, 9423, 1, 26>>, <<11264, 11311, 1, 48>>, <<11360, 11360, 1, 1>>,
     <<11362, 11362, 1, -10743>>, <<11363, 11363, 1, -3814>>, <<11364, 11364, 1, -10727>>,
     <<11367, 11371, 2, 1>>, <<11373, 11373, 1, -10780>>, <<11374, 11374, 1, -10749>>,
     <<11375, 11375, 1, -10783>>, <<11376, 11376, 1, -10782>>, <<11378, 11378, 1, 1>>,
     <<11381, 11381, 1, 1>>, <<11390, 11391, 1, -10815>>, <<11392, 11490, 2, 1>>,
     <<11499, 11501, 2, 1>>, <<11506, 11506, 1, 1>>, <<42560, 42604, 2, 1>>,
     <<42624, 42650, 2, 1>>, <<42786, 42798, 2, 1>>, <<42802, 42862, 2, 1>>,
     <<42873, 42875, 2, 1>>, <<42877, 42877, 1, -35332>>, <<42878, 42886, 2, 1>>,
     <<42891, 42891, 1, 1>>, <<42893, 42893, 1, -42280>>, <<42896, 42898, 2, 1>>,
     <<42902, 42920, 2, 1>>, <<42922, 42922, 1, -42308>>, <<42923, 42923, 1, -42319>>,
     <<42924, 42924, 1, -42315>>, <<42925, 42925, 1, -42305>>, <<42926, 42926, 1, -42308>>,
     <<42928, 42928, 1, -42258>>, <<42929, 42929, 1, -42282>>, <<42930, 42930, 1, -42261>>,
     <<42931, 42931, 1, 928>>, <<42932, 42946, 2, 1>>, <<42948, 42948, 1, -48>>,
     <<42949, 42949, 1, -42307>>, <<42950, 42950, 1, -35384>>, <<42951, 42953, 2, 1>>,
     <<42955, 42955, 1, -42343>>, <<42956, 42970, 2, 1>>, <<42972, 42972, 1, -42561>>,
     <<42997, 42997, 1, 1>>, <<65313, 65338, 1, 32>>, <<66560, 66599, 1, 40>>,
     <<66736, 66771, 1, 40>>, <<66928, 66964, 2, 39>>, <<66929, 66929, 1, 39>>,
     <<66931, 66931, 1, 39>>, <<66933, 66933, 1, 39>>, <<66935, 66935, 1, 39>>,
     <<66937, 66937, 1, 39>>, <<66941, 66941, 1, 39>>, <<66943, 66943, 1, 39>>,
     <<66945, 66945, 1, 39>>, <<66947, 66947, 1, 39>>, <<66949, 66949, 1, 39>>,
     <<66951, 66951, 1, 39>>, <<66953, 66953, 1, 39>>, <<66957, 66957, 1, 39>>,
     <<66959, 66959, 1, 39>>, <<66961, 66961, 1, 39>>, <<66965, 66965, 1, 39>>,
     <<68736, 68786, 1, 64>>, <<68944, 68965, 1, 32>>, <<71840, 71871, 1, 32>>,
     <<93760, 93791, 1, 32>>, <<93856, 93880, 1, 27>>, <<125184, 125217, 1, 34>> >>

\* the cased code points that are not case-ignorable, as <<first, last>>
CasedRanges ==
  << <<65, 90>>, <<97, 122>>, <<170, 170>>, <<181, 181>>, <<186, 186>>, <<192, 214>>,
     <<216, 246>>, <<248, 442>>, <<444, 447>>, <<452, 659>>, <<662, 687>>, <<880, 883>>,
     <<886, 887>>, <<891, 893>>, <<895, 895>>, <<902, 902>>, <<904, 906>>, <<908, 908>>,
     <<910, 929>>, <<931, 1013>>, <<1015, 1153>>, <<1162, 1327>>, <<1329, 1366>>,
     <<1376, 1416>>, <<4256, 4293>>, <<4295, 4295>>, <<4301, 4301>>, <<4304, 4346>>,
     <<4349, 4351>>, <<5024, 5109>>, <<5112, 5117>>, <<7296, 7306>>, <<7312, 7354>>,
     <<7357, 7359>>, <<7424, 7467>>, <<7531, 7543>>, <<7545, 7578>>, <<7680, 7957>>,
     <<7960, 7965>>, <<7968, 8005>>, <<8008, 8013>>, <<8016, 8023>>, <<8025, 8025>>,
     <<8027, 8027>>, <<8029, 8029>>, <<8031, 8061>>, <<8064, 8116>>, <<8118, 8124>>,
     <<8126, 8126>>, <<8130, 8132>>, <<8134, 8140>>, <<8144, 8147>>, <<8150, 8155>>,
     <<8160, 8172>>, <<8178, 8180>>, <<8182, 8188>>, <<8450, 8450>>, <<8455, 8455>>,
     <<8458, 8467>>, <<8469, 8469>>, <<8473, 8477>>, <<8484, 8484>>, <<8486, 8486>>,
     <<8488, 8488>>, <<8490, 8493>>, <<8495, 8500>>, <<8505, 8505>>, <<8508, 8511>>,
     <<8517, 8521>>, <<8526, 8526>>, <<8544, 8575>>, <<8579, 8580>>, <<9398, 9449>>,
     <<11264, 11387>>, <<11390, 11492>>, <<11499, 11502>>, <<11506, 11507>>,
     <<11520, 11557>>, <<11559, 11559>>, <<11565, 11565>>, <<42560, 42605>>,
     <<42624, 42651>>, <<42786, 42863>>, <<42865, 42887>>, <<42891, 42894>>,
     <<42896, 42972>>, <<42997, 42998>>, <<43002, 43002>>, <<43824, 43866>>,
     <<43872, 43880>>, <<43888, 43967>>, <<64256, 64262>>, <<64275, 64279>>,
     <<65313, 65338>>, <<65345, 65370>>, <<66560, 66639>>, <<66736, 66771>>,
     <<66776, 66811>>, <<66928, 66938>>, <<66940, 66954>>, <<66956, 66962>>,
     <<66964, 66965>>, <<66967, 66977>>, <<66979, 66993>>, <<66995, 67001>>,
     <<67003, 67004>>, <<68736, 68786>>, <<68800, 68850>>, <<68944, 68965>>,
     <<68976, 68997>>, <<71840, 71903>>, <<93760, 93823>>, <<93856, 93880>>,
     <<93883, 93907>>, <<119808, 119892>>, <<119894, 119964>>, <<119966, 119967>>,
     <<119970, 119970>>, <<119973, 119974>>, <<119977, 119980>>, <<119982, 119993>>,
     <<119995, 119995>>, <<119997, 120003>>, <<120005, 120069>>, <<120071, 120074>>,
     <<120077, 120084>>, <<120086, 120092>>, <<120094, 120121>>, <<120123, 120126>>,
     <<120128, 120132>>, <<120134, 120134>>, <<120138, 120144>>, <<120146, 120485>>,
     <<120488, 120512>>, <<120514, 120538>>, <<120540, 120570>>, <<120572, 120596>>,
     <<120598, 120628>>, <<120630, 120654>>, <<120656, 120686>>, <<120688, 120712>>,
     <<120714, 120744>>, <<120746, 120770>>, <<120772, 120779>>, <<122624, 122633>>,
     <<122635, 122654>>, <<122661, 122666>>, <<125184, 125251>>, <<127280, 127305>>,
     <<127312, 127337>>, <<127344, 127369>> >>

\* the case-ignorable code points, as <<first, last>>
IgnorableRanges ==
  << <<39, 39>>, <<46, 46>>, <<58, 58>>, <<94, 94>>, <<96, 96>>, <<168, 168>>, <<173, 173>>,
     <<175, 175>>, <<180, 180>>, <<183, 184>>, <<688, 879>>, <<884, 885>>, <<890, 890>>,
     <<900, 901>>, <<903, 903>>, <<1155, 1161>>, <<1369, 1369>>, <<1375, 1375>>,
     <<1425, 1469>>, <<1471, 1471>>, <<1473, 1474>>, <<1476, 1477>>, <<1479, 1479>>,
     <<1524, 1524>>, <<1536, 1541>>, <<1552, 1562>>, <<1564, 1564>>, <<1600, 1600>>,
     <<1611, 1631>>, <<1648, 1648>>, <<1750, 1757>>, <<1759, 1768>>, <<1770, 1773>>,
     <<1807, 1807>>, <<1809, 1809>>, <<1840, 1866>>, <<1958, 1968>>, <<2027, 2037>>,
     <<2042, 2042>>, <<2045, 2045>>, <<2070, 2093>>, <<2137, 2139>>, <<2184, 2184>>,
     <<2192, 2193>>, <<2199, 2207>>, <<2249, 2306>>, <<2362, 2362>>, <<2364, 2364>>,
     <<2369, 2376>>, <<2381, 2381>>, <<2385, 2391>>, <<2402, 2403>>, <<2417, 2417>>,
     <<2433, 2433>>, <<2492, 2492>>, <<2497, 2500>>, <<2509, 2509>>, <<2530, 2531>>,
     <<2558, 2558>>, <<2561, 2562>>, <<2620, 2620>>, <<2625, 2626>>, <<2631, 2632>>,
     <<2635, 2637>>, <<2641, 2641>>, <<2672, 2673>>, <<2677, 2677>>, <<2689, 2690>>,
     <<2748, 2748>>, <<2753, 2757>>, <<2759, 2760>>, <<2765, 2765>>, <<2786, 2787>>,
     <<2810, 2815>>, <<2817, 2817>>, <<2876, 2876>>, <<2879, 2879>>, <<2881, 2884>>,
     <<2893, 2893>>, <<2901, 2902>>, <<2914, 2915>>, <<2946, 2946>>, <<3008, 3008>>,
     <<3021, 3021>>, <<3072, 3072>>, <<3076, 3076>>, <<3132, 3132>>, <<3134, 3136>>,
     <<3142, 3144>>, <<3146, 3149>>, <<3157, 3158>>, <<3170, 3171>>, <<3201, 3201>>,
     <<3260, 3260>>, <<3263, 3263>>, <<3270, 3270>>, <<3276, 3277>>, <<3298, 3299>>,
     <<3328, 3329>>, <<3387, 3388>>, <<3393, 3396>>, <<3405, 3405>>, <<3426, 3427>>,
     <<3457, 3457>>, <<3530, 3530>>, <<3538, 3540>>, <<3542, 3542>>, <<3633, 3633>>,
     <<3636, 3642>>, <<3654, 3662>>, <<3761, 3761>>, <<3764, 3772>>, <<3782, 3782>>,
     <<3784, 3790>>, <<3864, 3865>>, <<3893, 3893>>, <<3895, 3895>>, <<3897, 3897>>,
     <<3953, 3966>>, <<3968, 3972>>, <<3974, 3975>>, <<3981, 3991>>, <<3993, 4028>>,
     <<4038, 4038>>, <<4141, 4144>>, <<4146, 4151>>, <<4153, 4154>>, <<4157, 4158>>,
     <<4184, 4185>>, <<4190, 4192>>, <<4209, 4212>>, <<4226, 4226>>, <<4229, 4230>>,
     <<4237, 4237>>, <<4253, 4253>>, <<4348, 4348>>, <<4957, 4959>>, <<5906, 5908>>,
     <<5938, 5939>>, <<5970, 5971>>, <<6002, 6003>>, <<6068, 6069>>, <<6071, 6077>>,
     <<6086, 6086>>, <<6089, 6099>>, <<6103, 6103>>, <<6109, 6109>>, <<6155, 6159>>,
     <<6211, 6211>>, <<6277, 6278>>, <<6313, 6313>>, <<6432, 6434>>, <<6439, 6440>>,
     <<6450, 6450>>, <<6457, 6459>>, <<6679, 6680>>, <<6683, 6683>>, <<6742, 6742>>,
     <<6744, 6750>>, <<6752, 6752>>, <<6754, 6754>>, <<6757, 6764>>, <<6771, 6780>>,
     <<6783, 6783>>, <<6823, 6823>>, <<6832, 6877>>, <<6880, 6891>>, <<6912, 6915>>,
     <<6964, 6964>>, <<6966, 6970>>, <<6972, 6972>>, <<6978, 6978>>, <<7019, 7027>>,
     <<7040, 7041>>, <<7074, 7077>>, <<7080, 7081>>, <<7083, 7085>>, <<7142, 7142>>,
     <<7144, 7145>>, <<7149, 7149>>, <<7151, 7153>>, <<7212, 7219>>, <<7222, 7223>>,
     <<7288, 7293>>, <<7376, 7378>>, <<7380, 7392>>, <<7394, 7400>>, <<7405, 7405>>,
     <<7412, 7412>>, <<7416, 7417>>, <<7468, 7530>>, <<7544, 7544>>, <<7579, 7679>>,
     <<8125, 8125>>, <<8127, 8129>>, <<8141, 8143>>, <<8157, 8159>>, <<8173, 8175>>,
     <<8189, 8190>>, <<8203, 8207>>, <<8216, 8217>>, <<8228, 8228>>, <<8231, 8231>>,
     <<8234, 8238>>, <<8288, 8292>>, <<8294, 8303>>, <<8305, 8305>>, <<8319, 8319>>,
     <<8336, 8348>>, <<8400, 8432>>, <<11388, 11389>>, <<11503, 11505>>, <<11631, 11631>>,
     <<11647, 11647>>, <<11744, 11775>>, <<11823, 11823>>, <<12293, 12293>>,
     <<12330, 12333>>, <<12337, 12341>>, <<12347, 12347>>, <<12441, 12446>>,
     <<12540, 12542>>, <<40981, 40981>>, <<42232, 42237>>, <<42508, 42508>>,
     <<42607, 42610>>, <<42612, 42621>>, <<42623, 42623>>, <<42652, 42655>>,
     <<42736, 42737>>, <<42752, 42785>>, <<42864, 42864>>, <<42888, 42890>>,
     <<42993, 42996>>, <<43000, 43001>>, <<43010, 43010>>, <<43014, 43014>>,
     <<43019, 43019>>, <<43045, 43046>>, <<43052, 43052>>, <<43204, 43205>>,
     <<43232, 43249>>, <<43263, 43263>>, <<43302, 43309>>, <<43335, 43345>>,
     <<43392, 43394>>, <<43443, 43443>>, <<43446, 43449>>, <<43452, 43453>>,
     <<43471, 43471>>, <<43493, 43494>>, <<43561, 43566>>, <<43569, 43570>>,
     <<43573, 43574>>, <<43587, 43587>>, <<43596, 43596>>, <<43632, 43632>>,
     <<43644, 43644>>, <<43696, 43696>>, <<43698, 43700>>, <<43703, 43704>>,
     <<43710, 43711>>, <<43713, 43713>>, <<43741, 43741>>, <<43756, 43757>>,
     <<43763, 43764>>, <<43766, 43766>>, <<43867, 43871>>, <<43881, 43883>>,
     <<44005, 44005>>, <<44008, 44008>>, <<44013, 44013>>, <<64286, 64286>>,
     <<64434, 64450>>, <<65024, 65039>>, <<65043, 65043>>, <<65056, 65071>>,
     <<65106, 65106>>, <<65109, 65109>>, <<65279, 65279>>, <<65287, 65287>>,
     <<65294, 65294>>, <<65306, 65306>>, <<65342, 65342>>, <<65344, 65344>>,
     <<65392, 65392>>, <<65438, 65439>>, <<65507, 65507>>, <<65529, 65531>>,
     <<66045, 66045>>, <<66272, 66272>>, <<66422, 66426>>, <<67456, 67461>>,
     <<67463, 67504>>, <<67506, 67514>>, <<68097, 68099>>, <<68101, 68102>>,
     <<68108, 68111>>, <<68152, 68154>>, <<68159, 68159>>, <<68325, 68326>>,
     <<68900, 68903>>, <<68942, 68942>>, <<68969, 68973>>, <<68975, 68975>>,
     <<69291, 69292>>, <<69317, 69317>>, <<69370, 69375>>, <<69446, 69456>>,
     <<69506, 69509>>, <<69633, 69633>>, <<69688, 69702>>, <<69744, 69744>>,
     <<69747, 69748>>, <<69759, 69761>>, <<69811, 69814>>, <<69817, 69818>>,
     <<69821, 69821>>, <<69826, 69826>>, <<69837, 69837>>, <<69888, 69890>>,
     <<69927, 69931>>, <<69933, 69940>>, <<70003, 70003>>, <<70016, 70017>>,
     <<70070, 70078>>, <<70089, 70092>>, <<70095, 70095>>, <<70191, 70193>>,
     <<70196, 70196>>, <<70198, 70199>>, <<70206, 70206>>, <<70209, 70209>>,
     <<70367, 70367>>, <<70371, 70378>>, <<70400, 70401>>, <<70459, 70460>>,
     <<70464, 70464>>, <<70502, 70508>>, <<70512, 70516>>, <<70587, 70592>>,
     <<70606, 70606>>, <<70608, 70608>>, <<70610, 70610>>, <<70625, 70626>>,
     <<70712, 70719>>, <<70722, 70724>>, <<70726, 70726>>, <<70750, 70750>>,
     <<70835, 70840>>, <<70842, 70842>>, <<70847, 70848>>, <<70850, 70851>>,
     <<71090, 71093>>, <<71100, 71101>>, <<71103, 71104>>, <<71132, 71133>>,
     <<71219, 71226>>, <<71229, 71229>>, <<71231, 71232>>, <<71339, 71339>>,
     <<71341, 71341>>, <<71344, 71349>>, <<71351, 71351>>, <<71453, 71453>>,
     <<71455, 71455>>, <<71458, 71461>>, <<71463, 71467>>, <<71727, 71735>>,
     <<71737, 71738>>, <<71995, 71996>>, <<71998, 71998>>, <<72003, 72003>>,
     <<72148, 72151>>, <<72154, 72155>>, <<72160, 72160>>, <<72193, 72202>>,
     <<72243, 72248>>, <<72251, 72254>>, <<72263, 72263>>, <<72273, 72278>>,
     <<72281, 72283>>, <<72330, 72342>>, <<72344, 72345>>, <<72544, 72544>>,
     <<72546, 72548>>, <<72550, 72550>>, <<72752, 72758>>, <<72760, 72765>>,
     <<72767, 72767>>, <<72850, 72871>>, <<72874, 72880>>, <<72882, 72883>>,
     <<72885, 72886>>, <<73009, 73014>>, <<73018, 73018>>, <<73020, 73021>>,
     <<73023, 73029>>, <<73031, 73031>>, <<73104, 73105>>, <<73109, 73109>>,
     <<73111, 73111>>, <<73177, 73177>>, <<73459, 73460>>, <<73472, 73473>>,
     <<73526, 73530>>, <<73536, 73536>>, <<73538, 73538>>, <<73562, 73562>>,
     <<78896, 78912>>, <<78919, 78933>>, <<90398, 90409>>, <<90413, 90415>>,
     <<92912, 92916>>, <<92976, 92982>>, <<92992, 92995>>, <<93504, 93506>>,
     <<93547, 93548>>, <<94031, 94031>>, <<94095, 94111>>, <<94176, 94177>>,
     <<94179, 94180>>, <<94194, 94195>>, <<110576, 110579>>, <<110581, 110587>>,
     <<110589, 110590>>, <<113821, 113822>>, <<113824, 113827>>, <<118528, 118573>>,
     <<118576, 118598>>, <<119143, 119145>>, <<119155, 119170>>, <<119173, 119179>>,
     <<119210, 119213>>, <<119362, 119364>>, <<121344, 121398>>, <<121403, 121452>>,
     <<121461, 121461>>, <<121476, 121476>>, <<121499, 121503>>, <<121505, 121519>>,
     <<122880, 122886>>, <<122888, 122904>>, <<122907, 122913>>, <<122915, 122916>>,
     <<122918, 122922>>, <<122928, 122989>>, <<123023, 123023>>, <<123184, 123197>>,
     <<123566, 123566>>, <<123628, 123631>>, <<124139, 124143>>, <<124398, 124399>>,
     <<124643, 124643>>, <<124646, 124646>>, <<124654, 124655>>, <<124661, 124661>>,
     <<124671, 124671>>, <<125136, 125142>>, <<125252, 125259>>, <<127995, 127999>>,
     <<917505, 917505>>, <<917536, 917631>>, <<917760, 917999>> >>

InRanges(cp, ranges) == \E i \in DOMAIN ranges : ranges[i][1] <= cp /\ cp <= ranges[i][2]

\* the lower-case form of one code point other than U+0130 and U+03A3
LowerChar(c) ==
  IF c < 128 THEN (IF c >= 65 /\ c <= 90 THEN c + 32 ELSE c)
  ELSE LET hit == {i \in DOMAIN LowerRanges :
                     /\ LowerRanges[i][1] <= c
                     /\ c <= LowerRanges[i][2]
                     /\ (c - LowerRanges[i][1]) % LowerRanges[i][3] = 0}
       IN IF hit = {} THEN c ELSE c + LowerRanges[CHOOSE i \in hit : TRUE][4]

\* the halves of a surrogate pair, the code point a pair stands for and the
\* code units of a code point
IsLead(c) == c >= 55296 /\ c <= 56319
IsTrail(c) == c >= 56320 /\ c <= 57343
PairValue(lead, trail) == 65536 + (lead - 55296) * 1024 + (trail - 56320)
CodeUnits(cp) ==
  IF cp < 65536 THEN <<cp>>
  ELSE <<55296 + ((cp - 65536) \div 1024), 56320 + ((cp - 65536) % 1024)>>

\* the code point that starts at unit i, and the one that ends at unit i
CodePointAt(s, i) ==
  IF IsLead(s[i]) /\ i < Len(s) /\ IsTrail(s[i + 1]) THEN PairValue(s[i], s[i + 1]) ELSE s[i]
CodePointBefore(s, i) ==
  IF IsTrail(s[i]) /\ i > 1 /\ IsLead(s[i - 1]) THEN PairValue(s[i - 1], s[i]) ELSE s[i]

\* a cased letter comes before unit i + 1, or from unit i on, with nothing
\* but case-ignorable code points in between
RECURSIVE CasedBefore(_, _)
CasedBefore(s, i) ==
  IF i < 1 THEN FALSE
  ELSE LET cp == CodePointBefore(s, i)
       IN IF InRanges(cp, IgnorableRanges)
          THEN CasedBefore(s, i - Len(CodeUnits(cp)))
          ELSE InRanges(cp, CasedRanges)

RECURSIVE CasedAfter(_, _)
CasedAfter(s, i) ==
  IF i > Len(s) THEN FALSE
  ELSE LET cp == CodePointAt(s, i)
       IN IF InRanges(cp, IgnorableRanges)
          THEN CasedAfter(s, i + Len(CodeUnits(cp)))
          ELSE InRanges(cp, CasedRanges)

\* s.toLowerCase() from unit i on.  U+0130 becomes two units; U+03A3 becomes
\* the final sigma U+03C2 at the end of a word and U+03C3 elsewhere.
RECURSIVE toLowerCase(_, _)
toLowerCase(s, i) ==
  IF i > Len(s) THEN <<>>
  ELSE LET cp == CodePointAt(s, i)
           lower == IF cp = 304 THEN <<105, 775>>
                    ELSE IF cp = 931
                         THEN (IF CasedBefore(s, i - 1) /\ ~CasedAfter(s, i + 1)
                               THEN <<962>> ELSE <<963>>)
                         ELSE CodeUnits(LowerChar(cp))
       IN lower \o toLowerCase(s, i + Len(CodeUnits(cp)))

\* the code units matched by \s
IsSpace(c) ==
  \/ c \in {9, 10, 11, 12, 13, 32, 160, 5760, 8232, 8233, 8239, 8287, 12288, 65279}
  \/ (c >= 8192 /\ c <= 8202)

\* s.replace(/\s+/g, '-')
RECURSIVE ReplaceSpaces(_)
ReplaceSpaces(s) ==
  IF s = <<>> THEN <<>>
  ELSE IF IsSpace(Head(s))
       THEN IF Len(s) > 1 /\ IsSpace(s[2]) THEN ReplaceSpaces(Tail(s))
            ELSE ChHyphen \o ReplaceSpaces(Tail(s))
       ELSE <<Head(s)>> \o ReplaceSpaces(Tail(s))

\* label.toLowerCase().replace(/\s+/g, '-')
Slug(s) == ReplaceSpaces(toLowerCase(s, 1))

\* The 32-bit hash is kept as two 16-bit halves [hi, lo] of its unsigned
\* value, so that the wrap-around of (hash << 5) - hash + c is exact.
HalfMod == 65536
HalfSign == 32768

\* one round of the loop: hash = ((hash << 5) - hash) + c; hash = hash & hash
HashStep(h, c) ==
  LET t == 31 * h.lo + c
  IN [lo |-> t % HalfMod, hi |-> (31 * h.hi + (t \div HalfMod)) % HalfMod]

RECURSIVE HashOf(_, _)
HashOf(s, h) == IF s = <<>> THEN h ELSE HashOf(Tail(s), HashStep(h, Head(s)))

\* Math.abs of the signed 32-bit value
AbsHalves(h) ==
  IF h.hi < HalfSign THEN h
  ELSE IF h.lo = 0 THEN [lo |-> 0, hi |-> HalfMod - h.hi]
       ELSE [lo |-> HalfMod - h.lo, hi |-> HalfMod - 1 - h.hi]

HexChar(d) == IF d < 10 THEN 48 + d ELSE 87 + d

\* the four hex digits of a 16-bit half
Hex4(n) == <<HexChar(n \div 4096), HexChar((n \div 256) % 16),
             HexChar((n \div 16) % 16), HexChar(n % 16)>>

RECURSIVE StripZeros(_)
StripZeros(s) ==
  IF Len(s) > 1 /\ Head(s) = 48 THEN StripZeros(Tail(s)) ELSE s

\* Number.prototype.toString(16)
ToHex(h) == StripZeros(Hex4(h.hi) \o Hex4(h.lo))

\* substring(0, n)
Prefix(s, n) == IF Len(s) <= n THEN s ELSE SubSeq(s, 1, n)

HexKeep == 6

generateHexFromString(str) ==
  Prefix(ToHex(AbsHalves(HashOf(str, [lo |-> 0, hi |-> 0]))), HexKeep)

\* the key without the hash of the label
deriveKeyPlain(label) == Slug(label)

\* `${label.toLowerCase().replace(/\s+/g, '-')}-${generateHexFromString(label)}`
deriveKey(label) == Slug(label) \o ChHyphen \o generateHexFromString(label)

(***************************************************************************)
(* Data                                                                    *)
(***************************************************************************)

\* an absent object reference: undefined parent, undefined properties.form
NoId == 0

FormTypes == {"simple", "array", "group"}

\* the options of the Layout select
Layouts == {"vertical", "horizontal"}

\* a FormElement; form is the identity of properties.form, or NoId.
\* required is its truthiness: undefined and false are never told apart.
Element(type, label, key, required, form) ==
  [type |-> type, label |-> label, key |-> key, required |-> required, form |-> form]

\* form.parent.  The builders only test it for truthiness.  A parent that is
\* still part of the tree, the path or an edit is held by identity; a parent
\* object that nothing but parent references keep alive is StaleParent: set,
\* and no object of the tree.
NoParent == [set |-> FALSE, id |-> NoId]
ParentRef(id) == [set |-> TRUE, id |-> id]
StaleParent == [set |-> TRUE, id |-> NoId]

\* a FormField; layout may be "undefined"
FormField(formType, label, key, elements, parent, layout) ==
  [formType |-> formType, label |-> label, key |-> key, elements |-> elements,
   parent |-> parent, layout |-> layout]

EmptyForm == FormField("simple", <<>>, <<>>, <<>>, NoParent, "undefined")
EmptyElement == Element("string", <<>>, <<>>, FALSE, NoId)

VARIABLES
  heap,            \* the FormField objects: heap[id] is the object of identity id
  forms,           \* useState forms: identities of the root forms, in order
  currentPath,     \* useState currentPath: identities, root end first
  editingForm,     \* useState editingForm: null, a tree object, or an edited copy
  editingElement,  \* useState editingElement: null or an element value
  selectedElementType,  \* useState selectedElementType: what the cards' select holds
  last,            \* the handler that ran last, with its arguments
  session          \* what this session's user does: the bounds of the run

vars == <<heap, forms, currentPath, editingForm, editingElement, selectedElementType,
          last, session>>

\* editingForm: st = "null", "ref" (the object id itself) or "copy" (a spread copy)
NoEditForm == [st |-> "null", id |-> NoId, val |-> EmptyForm]
RefEditForm(id) == [st |-> "ref", id |-> id, val |-> EmptyForm]
CopyEditForm(val) == [st |-> "copy", id |-> NoId, val |-> val]

\* editingElement: st = "null" or "set"
NoEditElement == [st |-> "null", val |-> EmptyElement]
SetEditElement(e) == [st |-> "set", val |-> e]

\* the fields read through editingForm
EditingFormIn(h, ef) == IF ef.st = "ref" THEN h[ef.id] ELSE ef.val
EF == EditingFormIn(heap, editingForm)

(***************************************************************************)
(* Sequence helpers                                                        *)
(***************************************************************************)

Range(s) == {s[i] : i \in DOMAIN s}

Last(s) == s[Len(s)]

\* Array.prototype.slice(0, n) for 0 <= n
Slice0(s, n) == IF n >= Len(s) THEN s ELSE SubSeq(s, 1, n)

\* element.type === 'object' && element.properties?.form
IsFormElement(el) == el.type = "object" /\ el.form # NoId

\* the embedded forms of a sequence of elements, in order
RECURSIVE ElemForms(_)
ElemForms(els) ==
  IF els = <<>> THEN <<>>
  ELSE (IF Head(els).form # NoId THEN <<Head(els).form>> ELSE <<>>)
       \o ElemForms(Tail(els))

(***************************************************************************)
(* Object identities.  Objects no state variable can reach any more are    *)
(* garbage; after every handler the live objects are renumbered in the     *)
(* order a walk from the state variables meets them, so that a state is    *)
(* the same state whatever identities its objects were allocated with.     *)
(***************************************************************************)

\* the objects one FormField value holds through its elements
RefsOf(rec) == ElemForms(rec.elements)

RECURSIVE Visit(_, _, _)
Visit(h, todo, seen) ==
  IF todo = <<>> THEN seen
  ELSE IF Head(todo) \in Range(seen) THEN Visit(h, Tail(todo), seen)
       ELSE Visit(h, RefsOf(h[Head(todo)]) \o Tail(todo), Append(seen, Head(todo)))

Roots(fs, cp, ef, ee) ==
  fs \o cp
  \o (IF ef.st = "ref" THEN <<ef.id>> ELSE IF ef.st = "copy" THEN RefsOf(ef.val) ELSE <<>>)
  \o (IF ee.st = "set" /\ ee.val.form # NoId THEN <<ee.val.form>> ELSE <<>>)

Renamed(order, id) ==
  IF id \in Range(order) THEN CHOOSE i \in DOMAIN order : order[i] = id ELSE NoId

RECURSIVE RenameIds(_, _)
RenameIds(order, ids) ==
  IF ids = <<>> THEN <<>>
  ELSE <<Renamed(order, Head(ids))>> \o RenameIds(order, Tail(ids))

RECURSIVE RenameElems(_, _)
RenameElems(order, els) ==
  IF els = <<>> THEN <<>>
  ELSE <<[Head(els) EXCEPT !.form = Renamed(order, @)]>> \o RenameElems(order, Tail(els))

RenameParent(order, h, p) ==
  IF p.id = NoId THEN p
  ELSE IF p.id \in Range(order) THEN ParentRef(Renamed(order, p.id))
       ELSE StaleParent

RenameForm(order, h, rec) ==
  [rec EXCEPT !.elements = RenameElems(order, @), !.parent = RenameParent(order, h, @)]

RECURSIVE RenameHeap(_, _, _)
RenameHeap(order, h, i) ==
  IF i > Len(order) THEN <<>>
  ELSE <<RenameForm(order, h, h[order[i]])>> \o RenameHeap(order, h, i + 1)

\* the record of the handler that ran last: its name, the key and label it
\* was given or generated, the form it was given, the object it created and
\* the index it was given
LastOp(op, key, label, form, id, idx) ==
  [op |-> op, key |-> key, label |-> label, form |-> form, id |-> id, idx |-> idx]

\* the objects held, at any depth, by the elements of the objects in S
RECURSIVE HeldBy(_, _)
HeldBy(h, S) ==
  LET more == S \cup UNION {Range(RefsOf(h[x])) : x \in S}
  IN IF more = S THEN S ELSE HeldBy(h, more)

\* some object holds itself: only then can a recursive walk
\* (generateFormSchema, updateNestedForms) exceed the call stack
NestedInItself(h, order) ==
  \E x \in Range(order) : x \in HeldBy(h, Range(RefsOf(h[x])))

\* the forms generateFormSchema enters from the forms in S: it descends
\* through the elements with type 'object' that carry a form, no others
RECURSIVE Entered(_, _)
Entered(h, S) ==
  LET more == S \cup UNION {Range(ElemForms(SelectSeq(h[x].elements, IsFormElement))) :
                               x \in S}
  IN IF more = S THEN S ELSE Entered(h, more)

\* generateFormSchema(form) exceeds the call stack: one of the forms it
\* enters is entered again from itself
SchemaOverflows(h, form) ==
  \E x \in Entered(h, {form}) :
    x \in Entered(h, Range(ElemForms(SelectSeq(h[x].elements, IsFormElement))))

\* processedForms after processForm went through the forms ids, one after
\* the other, done being processedForms before and nested telling whether
\* a parentPath is given
RECURSIVE Processed(_, _, _, _)
Processed(h, done, ids, nested) ==
  IF ids = <<>> THEN done
  ELSE LET f == Head(ids)
           skipped == h[f].key \in done \/ (h[f].parent.set /\ ~nested)
           below == ElemForms(SelectSeq(h[f].elements, IsFormElement))
       IN Processed(h,
                    IF skipped THEN done
                    ELSE Processed(h, done \cup {h[f].key}, below, TRUE),
                    Tail(ids), nested)

\* the render exceeds the call stack: generateJsonSchema builds the schema
\* of a root form that holds a form nested in itself.  A root form with a
\* parent, or with a key processed before, is not built.
RECURSIVE RenderOverflows(_, _, _)
RenderOverflows(h, fs, done) ==
  IF fs = <<>> THEN FALSE
  ELSE LET f == Head(fs)
           built == ~h[f].parent.set /\ h[f].key \notin done
       IN IF built /\ SchemaOverflows(h, f) THEN TRUE
          ELSE RenderOverflows(h, Tail(fs),
                               IF built THEN Processed(h, done, <<f>>, FALSE) ELSE done)

\* the state a handler leaves, once React has re-rendered.  When the render
\* that follows exceeds the call stack the page is gone: the state is kept
\* as it was, marked "overflow", and no handler runs after it.
Commit(h, fs, cp, ef, ee, l) ==
  LET order == Visit(h, Roots(fs, cp, ef, ee), <<>>)
  IN /\ last.op # "overflow"
     /\ Len(order) <= session.objs
     /\ Len(cp) <= session.objs
     /\ session' = session
     /\ selectedElementType' = selectedElementType
     /\ IF NestedInItself(h, order) /\ RenderOverflows(h, fs, {})
        THEN /\ last' = LastOp("overflow", <<>>, <<>>, NoId, NoId, 0)
             /\ UNCHANGED <<heap, forms, currentPath, editingForm, editingElement>>
        ELSE /\ heap' = RenameHeap(order, h, 1)
             /\ forms' = RenameIds(order, fs)
             /\ currentPath' = RenameIds(order, cp)
             /\ editingForm' = [ef EXCEPT !.id = Renamed(order, @),
                                          !.val = RenameForm(order, h, @)]
             /\ editingElement' = [ee EXCEPT !.val.form = Renamed(order, @)]
             /\ last' = [l EXCEPT !.form = Renamed(order, @), !.id = Renamed(order, @)]

(***************************************************************************)
(* What is on screen                                                       *)
(***************************************************************************)

\* the embedded forms of the tail's elements, whatever the kind of the tail
getCurrentFormsAnyKind(h, fs, cp) ==
  IF Len(cp) = 0 THEN fs
  ELSE ElemForms(SelectSeq(h[cp[Len(cp)]].elements, IsFormElement))

getCurrentFormsIn(h, fs, cp) ==
  IF Len(cp) = 0 THEN fs
  ELSE LET lastForm == h[cp[Len(cp)]]
       IN IF lastForm.formType = "array" \/ lastForm.formType = "group"
          THEN ElemForms(SelectSeq(lastForm.elements, IsFormElement))
          ELSE <<>>

getCurrentForms == getCurrentFormsIn(heap, forms, currentPath)

\* the forms whose card is drawn
Cards == Range(getCurrentForms)

\* editingForm?.key === form.key: the card shows the label editor
FormCardEditing(f) == editingForm.st # "null" /\ EF.key = heap[f].key

\* editingElement?.key === element.key: the element shows its editor
ElementEditing(el) == editingElement.st # "null" /\ editingElement.val.key = el.key

\* the cards that show their buttons and their elements
OpenCards == {f \in Cards : ~FormCardEditing(f)}

(***************************************************************************)
(* Inputs                                                                  *)
(***************************************************************************)

\* what uniqueNamesGenerator may return: "Big Red", "Shy Tan"
BigRed == <<66, 105, 103, 32, 82, 101, 100>>
ShyTan == <<83, 104, 121, 32, 84, 97, 110>>

\* what the user may type into a label field: "Big Red Object", "Big Red Form", "a.b"
LabelBigRedObject == BigRed \o ChSpace \o StrObject
LabelBigRedForm == BigRed \o ChSpace \o StrForm
LabelAB == <<97, 46, 98>>

\* A run is one of a few sessions.  Each bounds the live FormField objects
\* and the length of the path (objs), the root forms (roots) and the
\* elements of one form (elems), and
\* says which names the generator returns, which form types and element
\* types the user selects, which labels the user types into the form
\* editor, the types of the elements the user opens the element editor on
\* and the labels the user types into it, and whether the user never
\* reopens or cancels the form editor (adding); together the sessions cover
\* every handler.
\*   fields:  one root form, its plain elements and their editor
\*   roots:   root forms side by side, renamed and deleted
\*   kinds:   forms of every kind nested in each other, never renamed
\*   renames: group forms nested in each other, renamed and deleted
\*   deep:    forms added and deleted below a form that was saved
\*   back:    a nested form renamed, and renamed back to its first label
\*   shared:  two root forms, one of them given the label of a nested form
MaxObjsFields == 1
MaxElemsFields == 2
MaxObjsRoots == 2
MaxObjsKinds == 3
MaxElemsKinds == 1
MaxObjsRenames == 3
MaxElemsRenames == 1
MaxObjsDeep == 5
MaxElemsDeep == 2
MaxObjsBack == 4
MaxElemsBack == 1
MaxObjsShared == 3
MaxElemsShared == 1

Session(name, objs, roots, elems, baseNames, formTypes, elementTypes, formLabels, edited, elementLabels, adding) ==
  [name |-> name, objs |-> objs, roots |-> roots, elems |-> elems,
   baseNames |-> baseNames, formTypes |-> formTypes, elementTypes |-> elementTypes,
   formLabels |-> formLabels, edited |-> edited, elementLabels |-> elementLabels,
   adding |-> adding]

Sessions ==
  { Session("fields", MaxObjsFields, MaxObjsFields, MaxElemsFields, {BigRed},
            {"simple", "group"}, {"string", "date"}, {}, {"string", "date"}, {LabelAB}, FALSE),
    Session("roots", MaxObjsRoots, MaxObjsRoots, 0, {BigRed, ShyTan},
            {"simple", "array"}, {}, {LabelAB}, {}, {}, FALSE),
    Session("kinds", MaxObjsKinds, 1, MaxElemsKinds, {BigRed, ShyTan},
            FormTypes, {"object"}, {}, {}, {}, FALSE),
    Session("renames", MaxObjsRenames, 1, MaxElemsRenames, {BigRed},
            {"group"}, {"object"}, {LabelBigRedObject}, {"object"}, {}, FALSE),
    Session("deep", MaxObjsDeep, 1, MaxElemsDeep, {BigRed},
            {"group"}, {"object"}, {LabelAB}, {}, {}, TRUE),
    Session("back", MaxObjsBack, 1, MaxElemsBack, {BigRed, ShyTan},
            {"group"}, {"object"}, {LabelAB, LabelBigRedForm}, {}, {}, FALSE),
    Session("shared", MaxObjsShared, 2, MaxElemsShared, {BigRed, ShyTan},
            {"group"}, {"object"}, {LabelBigRedObject}, {}, {}, TRUE) }

(***************************************************************************)
(* Identity generator                                                      *)
(***************************************************************************)

\* type.charAt(0).toUpperCase() + type.slice(1), or 'Form' for a form type
TypeLabel(type) ==
  CASE type \in FormTypes -> StrForm
    [] type = "string" -> StrString
    [] type = "number" -> StrNumber
    [] type = "boolean" -> StrBoolean
    [] type = "date" -> StrDate
    [] type = "object" -> StrObject
    [] type = "array" -> StrArray

\* baseName is what uniqueNamesGenerator(config) returned
generateElementName(type, baseName) ==
  LET label == baseName \o ChSpace \o TypeLabel(type)
  IN [label |-> label, key |-> Slug(label) \o ChHyphen \o generateHexFromString(label)]

(***************************************************************************)
(* Handlers                                                                *)
(***************************************************************************)

\* addForm, with selectedType and the generated base name
addForm(selectedType, baseName) ==
  LET name == generateElementName(selectedType, baseName)
      parent == IF Len(currentPath) = 0 THEN NoId ELSE Last(currentPath)
      newForm == FormField(selectedType, name.label, name.key, <<>>,
                           IF parent = NoId THEN NoParent ELSE ParentRef(parent), "vertical")
      id == Len(heap) + 1
      h1 == Append(heap, newForm)
      newElement == Element("object", name.label, name.key, FALSE, id)
      l == LastOp("addForm", <<>>, <<>>, NoId, id, 0)
  IN IF Len(currentPath) = 0
     THEN /\ Len(forms) < session.roots
          /\ Commit(h1, Append(forms, id), currentPath, RefEditForm(id), editingElement, l)
     ELSE /\ Len(heap[parent].elements) < session.elems
          /\ Commit([h1 EXCEPT ![parent].elements = Append(@, newElement)],
                    forms, currentPath, RefEditForm(id), editingElement, l)

\* addElement(form), with the generated base name
addElement(form, baseName) ==
  LET name == generateElementName(selectedElementType, baseName)
      id == Len(heap) + 1
  IN /\ Len(heap[form].elements) < session.elems
     /\ IF selectedElementType = "object"
        THEN LET newForm == FormField("group", name.label, name.key, <<>>, ParentRef(form),
                                      "undefined")
                 newElement == Element("object", name.label, name.key, FALSE, id)
                 h1 == [Append(heap, newForm) EXCEPT ![form].elements = Append(@, newElement)]
             IN Commit(h1, forms, Append(currentPath, id), editingForm, editingElement,
                       LastOp("addElement", <<>>, <<>>, form, id, 0))
        ELSE LET newElement == Element(selectedElementType, name.label, name.key, FALSE, NoId)
                 h1 == [heap EXCEPT ![form].elements = Append(@, newElement)]
             IN Commit(h1, forms, currentPath, editingForm, SetEditElement(newElement),
                       LastOp("addElement", <<>>, <<>>, form, NoId, 0))

\* the element with its embedded form swapped and its label and key kept
embedOnly(element, updatedNestedForm, id) == [element EXCEPT !.form = id]

\* { ...element, label: updatedNestedForm.label, key: updatedNestedForm.key,
\*   properties: { ...element.properties, form: updatedNestedForm } }
embedUpdated(element, updatedNestedForm, id) ==
  [element EXCEPT !.label = updatedNestedForm.label,
                  !.key = updatedNestedForm.key,
                  !.form = id]

\* updateNestedForms(form): the heap with the copies it allocates, and the
\* identity it returns.  target is updatedForm.key, fwk is formWithNewKey.
RECURSIVE updateNestedForms(_, _, _, _)
RECURSIVE updateElements(_, _, _, _)
updateNestedForms(h, form, target, fwk) ==
  IF h[form].key = target THEN [h |-> h, id |-> fwk]
  ELSE LET r == updateElements(h, h[form].elements, target, fwk)
       IN [h |-> Append(r.h, [h[form] EXCEPT !.elements = r.els]), id |-> Len(r.h) + 1]

updateElements(h, els, target, fwk) ==
  IF els = <<>> THEN [h |-> h, els |-> <<>>]
  ELSE LET element == Head(els)
           r == IF IsFormElement(element)
                THEN updateNestedForms(h, element.form, target, fwk)
                ELSE [h |-> h, id |-> element.form]
           updated == IF IsFormElement(element) /\ r.id # element.form
                      THEN embedUpdated(element, r.h[r.id], r.id)
                      ELSE element
           rest == updateElements(r.h, Tail(els), target, fwk)
       IN [h |-> rest.h, els |-> <<updated>> \o rest.els]

\* ids.map(id => updateNestedForms(id)), the heap threaded through
RECURSIVE updateAll(_, _, _, _)
updateAll(h, ids, target, fwk) ==
  IF ids = <<>> THEN [h |-> h, ids |-> <<>>]
  ELSE LET r == updateNestedForms(h, Head(ids), target, fwk)
           rest == updateAll(r.h, Tail(ids), target, fwk)
       IN [h |-> rest.h, ids |-> <<r.id>> \o rest.ids]

\* the forms updateNestedForms(form) is called on, for form in S and
\* below: it stops at a form keyed target and walks the others
RECURSIVE Walked(_, _, _)
Walked(h, S, target) ==
  LET more == S \cup UNION {Range(ElemForms(SelectSeq(h[x].elements, IsFormElement))) :
                               x \in {y \in S : h[y].key # target}}
  IN IF more = S THEN S ELSE Walked(h, more, target)

\* updateNestedForms(form) exceeds the call stack: it walks a form that is
\* nested in itself below no form keyed target
UpdateOverflows(h, form, target) ==
  \E x \in Walked(h, {form}, target) :
    /\ h[x].key # target
    /\ x \in Walked(h, Range(ElemForms(SelectSeq(h[x].elements, IsFormElement))), target)

\* updateForm(updatedForm).  When forms.map exceeds the call stack nothing
\* was set; when currentPath.map does, setForms was called and is applied,
\* setCurrentPath and setEditingForm were not.
updateForm(updatedForm) ==
  LET newKey == deriveKey(updatedForm.label)
      formWithNewKey == [updatedForm EXCEPT !.key = newKey]
      fwk == Len(heap) + 1
      h1 == Append(heap, formWithNewKey)
      updatedForms == updateAll(h1, forms, updatedForm.key, fwk)
      updatedPath == updateAll(updatedForms.h, currentPath, updatedForm.key, fwk)
      thrown == LastOp("updateForm thrown", updatedForm.key, updatedForm.label, NoId, NoId, 0)
  IN IF \E i \in DOMAIN forms : UpdateOverflows(heap, forms[i], updatedForm.key)
     THEN Commit(heap, forms, currentPath, editingForm, editingElement, thrown)
     ELSE IF \E i \in DOMAIN currentPath :
               UpdateOverflows(heap, currentPath[i], updatedForm.key)
          THEN Commit(updatedForms.h, updatedForms.ids, currentPath, editingForm,
                      editingElement, thrown)
          ELSE Commit(updatedPath.h, updatedForms.ids, updatedPath.ids, NoEditForm,
                      editingElement,
                      LastOp("updateForm", updatedForm.key, updatedForm.label, NoId, fwk, 0))

RECURSIVE ReplaceByKey(_, _)
\* elements.map(element => element.key === updatedElement.key ? updatedElement : element)
ReplaceByKey(els, updatedElement) ==
  IF els = <<>> THEN <<>>
  ELSE <<IF Head(els).key = updatedElement.key THEN updatedElement ELSE Head(els)>>
       \o ReplaceByKey(Tail(els), updatedElement)

\* updateElement(form, updatedElement)
updateElement(form, updatedElement) ==
  Commit([heap EXCEPT ![form].elements = ReplaceByKey(@, updatedElement)],
         forms, currentPath, editingForm, NoEditElement,
         LastOp("updateElement", updatedElement.key, updatedElement.label, form, NoId, 0))

RECURSIVE DropFormsKeyed(_, _, _)
\* forms.filter(form => form.key !== key)
DropFormsKeyed(h, ids, key) ==
  IF ids = <<>> THEN <<>>
  ELSE (IF h[Head(ids)].key # key THEN <<Head(ids)>> ELSE <<>>)
       \o DropFormsKeyed(h, Tail(ids), key)

RECURSIVE DropEmbedding(_, _, _)
\* elements.filter(el => !(el.type === 'object' && el.properties?.form?.key === key))
DropEmbedding(h, els, key) ==
  IF els = <<>> THEN <<>>
  ELSE (IF ~(Head(els).type = "object" /\ Head(els).form # NoId
             /\ h[Head(els).form].key = key)
        THEN <<Head(els)>> ELSE <<>>)
       \o DropEmbedding(h, Tail(els), key)

\* deleteForm(key)
deleteForm(key) ==
  LET ef == IF editingForm.st # "null" /\ EF.key = key THEN NoEditForm ELSE editingForm
      l == LastOp("deleteForm", key, <<>>, NoId, NoId, 0)
  IN IF Len(currentPath) = 0
     THEN Commit(heap, DropFormsKeyed(heap, forms, key), currentPath, ef, editingElement, l)
     ELSE Commit([heap EXCEPT ![Last(currentPath)].elements = DropEmbedding(heap, @, key)],
                 forms, currentPath, ef, editingElement, l)

RECURSIVE DropKeyed(_, _)
\* elements.filter(element => element.key !== elementKey)
DropKeyed(els, elementKey) ==
  IF els = <<>> THEN <<>>
  ELSE (IF Head(els).key # elementKey THEN <<Head(els)>> ELSE <<>>)
       \o DropKeyed(Tail(els), elementKey)

\* deleteElement(form, elementKey)
deleteElement(form, elementKey) ==
  Commit([heap EXCEPT ![form].elements = DropKeyed(@, elementKey)],
         forms, currentPath, editingForm,
         IF editingElement.st # "null" /\ editingElement.val.key = elementKey
         THEN NoEditElement ELSE editingElement,
         LastOp("deleteElement", elementKey, <<>>, form, NoId, 0))

\* navigateToForm(form)
navigateToForm(form) ==
  Commit(heap, forms, Append(currentPath, form), editingForm, editingElement,
         LastOp("navigateToForm", <<>>, <<>>, NoId, NoId, 0))

\* a way back that empties the path
navigateBackToRoot ==
  Commit(heap, forms, <<>>, editingForm, editingElement,
         LastOp("navigateBack", <<>>, <<>>, NoId, NoId, 0))

\* navigateBack(): currentPath.slice(0, -1)
navigateBack ==
  Commit(heap, forms, Slice0(currentPath, IF Len(currentPath) = 0 THEN 0 ELSE Len(currentPath) - 1),
         editingForm, editingElement,
         LastOp("navigateBack", <<>>, <<>>, NoId, NoId, 0))

\* the breadcrumb buttons: setCurrentPath(currentPath.slice(0, index + 1))
jumpTo(index) ==
  Commit(heap, forms, Slice0(currentPath, index + 1), editingForm, editingElement,
         LastOp("jumpTo", <<>>, <<>>, NoId, NoId, 0))

\* the Root button: setCurrentPath([])
resetPath ==
  Commit(heap, forms, <<>>, editingForm, editingElement,
         LastOp("resetPath", <<>>, <<>>, NoId, NoId, 0))

(***************************************************************************)
(* The structural schema: generateFormSchema, generateJsonSchema           *)
(***************************************************************************)

\* A SchemaObject.  has names the keys the object owns among title, format,
\* properties, required and items; a key it does not own holds <<>> or "".
\* properties is the object's own properties in insertion order; items is
\* <<>> or the one items object.
SchemaObject(type, has, title, format, properties, required, items) ==
  [type |-> type, has |-> has, title |-> title, format |-> format,
   properties |-> properties, required |-> required, items |-> items]

Prop(key, value) == [key |-> key, value |-> value]

\* obj[key] = value: a new key goes last, a key the object owns keeps its place
RECURSIVE Put(_, _, _)
Put(props, key, value) ==
  IF props = <<>> THEN <<Prop(key, value)>>
  ELSE IF Head(props).key = key THEN <<Prop(key, value)>> \o Tail(props)
       ELSE <<Head(props)>> \o Put(Tail(props), key, value)

\* key in obj, obj[key]
Has(props, key) == \E i \in DOMAIN props : props[i].key = key
Get(props, key) == props[CHOOSE i \in DOMAIN props : props[i].key = key].value

\* Object.keys(obj)
RECURSIVE Keys(_)
Keys(props) == IF props = <<>> THEN <<>> ELSE <<Head(props).key>> \o Keys(Tail(props))

\* the required keys with the filter left out: every element's key
RECURSIVE AllKeys(_)
AllKeys(elements) ==
  IF elements = <<>> THEN <<>> ELSE <<Head(elements).key>> \o AllKeys(Tail(elements))

\* elements.filter(el => el.required).map(el => el.key)
RECURSIVE RequiredKeys(_)
RequiredKeys(elements) ==
  IF elements = <<>> THEN <<>>
  ELSE (IF Head(elements).required THEN <<Head(elements).key>> ELSE <<>>)
       \o RequiredKeys(Tail(elements))

\* { type: 'object', properties, ...(required.length > 0 ? { required } : {}) },
\* with a title when title is given as <<title>>
ObjectSchema(title, properties, required) ==
  SchemaObject("object",
               {"properties"} \cup (IF title # <<>> THEN {"title"} ELSE {})
                 \cup (IF required # <<>> THEN {"required"} ELSE {}),
               IF title # <<>> THEN title[1] ELSE <<>>, "", properties, required, <<>>)

\* the branches of processElements for an element that embeds no form, with
\* the date branch left out
plainSchemaNoDate(element) ==
  IF element.type = "array"
  THEN SchemaObject("array", {"title", "items"}, element.label, "", <<>>, <<>>,
                    <<SchemaObject("string", {}, <<>>, "", <<>>, <<>>, <<>>)>>)
  ELSE SchemaObject(element.type, {"title"}, element.label, "", <<>>, <<>>, <<>>)

\* the branches of processElements for an element that embeds no form
plainSchema(element) ==
  IF element.type = "array"
  THEN SchemaObject("array", {"title", "items"}, element.label, "", <<>>, <<>>,
                    <<SchemaObject("string", {}, <<>>, "", <<>>, <<>>, <<>>)>>)
  ELSE IF element.type = "date"
       THEN SchemaObject("string", {"format", "title"}, element.label, "date",
                         <<>>, <<>>, <<>>)
       ELSE SchemaObject(element.type, {"title"}, element.label, "", <<>>, <<>>, <<>>)

RECURSIVE generateFormSchema(_, _)
RECURSIVE processElements(_, _, _)
\* generateFormSchema(form), form being the object h[form]
generateFormSchema(h, form) ==
  LET properties == processElements(h, h[form].elements, <<>>)
      required == RequiredKeys(h[form].elements)
  IN IF h[form].formType = "simple" \/ h[form].formType = "group"
     THEN ObjectSchema(<<h[form].label>>, properties, required)
     ELSE IF h[form].formType = "array"
          THEN SchemaObject("array", {"title", "items"}, h[form].label, "", <<>>, <<>>,
                            <<ObjectSchema(<<>>, properties, required)>>)
          ELSE ObjectSchema(<<>>, <<>>, <<>>)

\* processElements(elements): the reduce, acc being the accumulator
processElements(h, elements, acc) ==
  IF elements = <<>> THEN acc
  ELSE LET element == Head(elements)
           value == IF element.type = "object" /\ element.form # NoId
                    THEN generateFormSchema(h, element.form)
                    ELSE plainSchema(element)
       IN processElements(h, Tail(elements), Put(acc, element.key, value))

\* the forms generateFormSchema(form) is invoked on, itself first, then the
\* invocations its processElements makes, in order
RECURSIVE FragmentCalls(_, _)
RECURSIVE ElementCalls(_, _)
FragmentCalls(h, form) == <<form>> \o ElementCalls(h, h[form].elements)

ElementCalls(h, elements) ==
  IF elements = <<>> THEN <<>>
  ELSE (IF Head(elements).type = "object" /\ Head(elements).form # NoId
        THEN FragmentCalls(h, Head(elements).form) ELSE <<>>)
       \o ElementCalls(h, Tail(elements))

\* parentPath.split('.'), cur being the part read so far
RECURSIVE SplitOn(_, _, _)
SplitOn(s, sep, cur) ==
  IF s = <<>> THEN <<cur>>
  ELSE IF Head(s) = sep THEN <<cur>> \o SplitOn(Tail(s), sep, <<>>)
       ELSE SplitOn(Tail(s), sep, Append(cur, Head(s)))

\* currentObj[part]?.type === 'array' && currentObj[part].items?.properties
IsArrayOfObjects(node) ==
  node.type = "array" /\ node.items # <<>> /\ "properties" \in node.items[1].has

\* the loop over pathParts: currentObj after the parts before the last, and
\* the assignment at the last part, as the properties object it leaves
RECURSIVE InsertAt(_, _, _, _)
InsertAt(currentObj, pathParts, key, formSchema) ==
  LET part == Head(pathParts)
      found == Has(currentObj, part)
      node == Get(currentObj, part)
  IN IF Len(pathParts) = 1
     THEN IF found /\ IsArrayOfObjects(node)
          THEN Put(currentObj, part,
                   [node EXCEPT !.items[1].properties = Put(@, key, formSchema)])
          ELSE IF found /\ "properties" \in node.has
               THEN Put(currentObj, part, [node EXCEPT !.properties = Put(@, key, formSchema)])
               ELSE currentObj
     ELSE IF found /\ IsArrayOfObjects(node)
          THEN Put(currentObj, part,
                   [node EXCEPT !.items[1].properties =
                                   InsertAt(@, Tail(pathParts), key, formSchema)])
          ELSE IF found /\ "properties" \in node.has
               THEN Put(currentObj, part,
                        [node EXCEPT !.properties =
                                        InsertAt(@, Tail(pathParts), key, formSchema)])
               ELSE InsertAt(currentObj, Tail(pathParts), key, formSchema)

\* form.elements.some(el => el.required)
SomeRequired(elements) == \E i \in DOMAIN elements : elements[i].required

\* One generateJsonSchema build in progress: schema.properties and
\* schema.required, processedForms, and what the build has done so far:
\* the forms processForm went through with (visited) and every form
\* generateFormSchema was invoked on (built), in order.
Build(properties, required, processedForms, visited, built) ==
  [properties |-> properties, required |-> required, processedForms |-> processedForms,
   visited |-> visited, built |-> built]

RECURSIVE processForm(_, _, _, _)
RECURSIVE processNested(_, _, _, _)
\* processForm(form, parentPath); parentPath = <<>> is undefined
processForm(h, b, form, parentPath) ==
  IF h[form].key \in b.processedForms THEN b
  ELSE IF h[form].parent.set /\ parentPath = <<>> THEN b
  ELSE LET formSchema == generateFormSchema(h, form)
           key == h[form].key
           b1 == IF parentPath # <<>>
                 THEN [b EXCEPT !.properties =
                                   InsertAt(@, SplitOn(parentPath, 46, <<>>), key, formSchema)]
                 ELSE [b EXCEPT !.properties = Put(@, key, formSchema),
                                !.required = IF SomeRequired(h[form].elements)
                                             THEN Append(@, key) ELSE @]
           b2 == [b1 EXCEPT !.processedForms = @ \cup {key},
                            !.visited = Append(@, form),
                            !.built = @ \o FragmentCalls(h, form)]
           newParentPath == IF parentPath # <<>> THEN parentPath \o ChDot \o key ELSE key
       IN processNested(h, b2, h[form].elements, newParentPath)

\* form.elements.forEach(element => ... processForm(nestedForm, newParentPath))
processNested(h, b, elements, newParentPath) ==
  IF elements = <<>> THEN b
  ELSE processNested(h,
                     IF Head(elements).type = "object" /\ Head(elements).form # NoId
                     THEN processForm(h, b, Head(elements).form, newParentPath)
                     ELSE b,
                     Tail(elements), newParentPath)

\* forms.filter(form => !form.parent).forEach(form => processForm(form))
RECURSIVE processRoots(_, _, _)
processRoots(h, b, fs) ==
  IF fs = <<>> THEN b
  ELSE processRoots(h,
                    IF ~h[Head(fs)].parent.set THEN processForm(h, b, Head(fs), <<>>) ELSE b,
                    Tail(fs))

\* the build generateJsonSchema() runs over the forms fs
JsonBuild(h, fs) == processRoots(h, Build(<<>>, <<>>, {}, <<>>, <<>>), fs)

\* generateJsonSchema(): { type: 'object', properties, required }
generateJsonSchema(h, fs) ==
  LET b == JsonBuild(h, fs)
  IN SchemaObject("object", {"properties", "required"}, <<>>, "", b.properties, b.required,
                  <<>>)

\* const schema = generateJsonSchema(), recomputed at every render
schema == generateJsonSchema(heap, forms)

(***************************************************************************)
(* The presentation schema: generateUiSchema                               *)
(***************************************************************************)

\* A UISchemaElement: a Control (with options.detail when detail is not
\* <<>>), a Group, or null
UiControl(scope) ==
  [type |-> "Control", scope |-> scope, label |-> <<>>, elements |-> <<>>, detail |-> <<>>]
UiDetailControl(scope, layout, elements) ==
  [type |-> "Control", scope |-> scope, label |-> <<>>, elements |-> <<>>,
   detail |-> <<[type |-> layout, elements |-> elements]>>]
UiGroup(label, scope, elements) ==
  [type |-> "Group", scope |-> scope, label |-> label, elements |-> elements, detail |-> <<>>]
UiNull ==
  [type |-> "null", scope |-> <<>>, label |-> <<>>, elements |-> <<>>, detail |-> <<>>]

\* scope.startsWith('#/properties/')
StartsWith(s, prefix) == Len(s) >= Len(prefix) /\ SubSeq(s, 1, Len(prefix)) = prefix

cleanScopePath(scope) ==
  IF ~StartsWith(scope, StrPropsPrefix) THEN scope
  ELSE LET parts == SplitOn(scope, 47, <<>>)
       IN IF Len(parts) > 3 THEN StrPropsPrefix \o parts[Len(parts)] ELSE scope

\* forms.find(f => f.key === key): a root form, or NoId for undefined
FindForm(h, fs, key) ==
  IF \E i \in DOMAIN fs : h[fs[i]].key = key
  THEN fs[CHOOSE i \in DOMAIN fs :
            h[fs[i]].key = key /\ \A j \in 1 .. i - 1 : h[fs[j]].key # key]
  ELSE NoId

\* form?.formType, form?.layout, form.label
FormTypeOf(h, form) == IF form = NoId THEN "undefined" ELSE h[form].formType
LayoutOf(h, form) == IF form = NoId THEN "undefined" ELSE h[form].layout

RECURSIVE getGroupFormElements(_, _)
getGroupFormElements(properties, groupPath) ==
  IF properties = <<>> THEN <<>>
  ELSE <<UiControl(groupPath \o StrSlashProps \o Head(properties).key)>>
       \o getGroupFormElements(Tail(properties), groupPath)

RECURSIVE getSimpleFormElements(_)
getSimpleFormElements(properties) ==
  IF properties = <<>> THEN <<>>
  ELSE <<UiControl(cleanScopePath(StrPropsPrefix \o Head(properties).key))>>
       \o getSimpleFormElements(Tail(properties))

\* propValue.type === 'object' && propValue.properties
IsObjectWithProperties(node) == node.type = "object" /\ "properties" \in node.has

RECURSIVE processArrays(_, _, _, _, _)
RECURSIVE processObject(_, _, _, _, _)
RECURSIVE arrayItems(_, _, _, _)
RECURSIVE arrayNested(_, _, _, _)
RECURSIVE objectEntries(_, _, _, _)

\* processArrays(schemaObj, path, form)
processArrays(h, fs, schemaObj, path, form) ==
  IF IsArrayOfObjects(schemaObj)
  THEN UiDetailControl(cleanScopePath(path),
                       IF LayoutOf(h, form) = "horizontal"
                       THEN "HorizontalLayout" ELSE "VerticalLayout",
                       arrayItems(h, fs, schemaObj.items[1].properties, form))
  ELSE UiNull

\* the map over Object.entries(schemaObj.items.properties) in processArrays
arrayItems(h, fs, properties, form) ==
  IF properties = <<>> THEN <<>>
  ELSE LET propKey == Head(properties).key
           propValue == Head(properties).value
           nestedForm == FindForm(h, fs, propKey)
           one ==
             IF propValue.type = "array"
             THEN processArrays(h, fs, propValue, StrPropsPrefix \o propKey, form)
             ELSE IF IsObjectWithProperties(propValue)
                  THEN IF FormTypeOf(h, nestedForm) = "simple"
                       THEN UiDetailControl(cleanScopePath(StrPropsPrefix \o propKey),
                                            "VerticalLayout",
                                            getSimpleFormElements(propValue.properties))
                       ELSE IF FormTypeOf(h, nestedForm) = "group"
                            THEN UiGroup(h[nestedForm].label, StrPropsPrefix \o propKey,
                                         getGroupFormElements(propValue.properties,
                                                              StrPropsPrefix \o propKey))
                            ELSE UiDetailControl(cleanScopePath(StrPropsPrefix \o propKey),
                                                 "VerticalLayout",
                                                 arrayNested(h, fs, propValue.properties,
                                                             nestedForm))
                  ELSE UiControl(cleanScopePath(StrPropsPrefix \o propKey))
       IN <<one>> \o arrayItems(h, fs, Tail(properties), form)

\* the map over Object.entries(propValue.properties) in processArrays
arrayNested(h, fs, properties, nestedForm) ==
  IF properties = <<>> THEN <<>>
  ELSE LET nestedKey == Head(properties).key
           nestedValue == Head(properties).value
           nestedNestedForm == FindForm(h, fs, nestedKey)
           one ==
             IF nestedValue.type = "array"
             THEN processArrays(h, fs, nestedValue, StrPropsPrefix \o nestedKey, nestedForm)
             ELSE IF IsObjectWithProperties(nestedValue)
                  THEN IF FormTypeOf(h, nestedNestedForm) = "simple"
                       THEN UiDetailControl(cleanScopePath(StrPropsPrefix \o nestedKey),
                                            "VerticalLayout",
                                            getSimpleFormElements(nestedValue.properties))
                       ELSE IF FormTypeOf(h, nestedNestedForm) = "group"
                            THEN UiGroup(h[nestedNestedForm].label, StrPropsPrefix \o nestedKey,
                                         getGroupFormElements(nestedValue.properties,
                                                              StrPropsPrefix \o nestedKey))
                            ELSE processObject(h, fs, nestedValue, StrPropsPrefix \o nestedKey,
                                               nestedNestedForm)
                  ELSE UiControl(cleanScopePath(StrPropsPrefix \o nestedKey))
       IN <<one>> \o arrayNested(h, fs, Tail(properties), nestedForm)

\* processObject(schemaObj, path, currentForm)
processObject(h, fs, schemaObj, path, currentForm) ==
  IF IsObjectWithProperties(schemaObj)
  THEN LET elements == objectEntries(h, fs, schemaObj.properties, path)
       IN IF FormTypeOf(h, currentForm) = "group"
          THEN UiGroup(h[currentForm].label, path, elements)
          ELSE UiDetailControl(cleanScopePath(path), "VerticalLayout", elements)
  ELSE UiNull

\* the map over Object.entries(schemaObj.properties) in processObject
objectEntries(h, fs, properties, path) ==
  IF properties = <<>> THEN <<>>
  ELSE LET key == Head(properties).key
           prop == Head(properties).value
           newPath == IF path # <<>> THEN path \o ChSlash \o key ELSE StrPropsPrefix \o key
           nestedForm == FindForm(h, fs, key)
           one ==
             IF prop.type = "array"
             THEN processArrays(h, fs, prop, newPath, nestedForm)
             ELSE IF IsObjectWithProperties(prop)
                  THEN IF FormTypeOf(h, nestedForm) = "simple"
                       THEN UiDetailControl(cleanScopePath(newPath), "VerticalLayout",
                                            getSimpleFormElements(prop.properties))
                       ELSE IF FormTypeOf(h, nestedForm) = "group"
                            THEN UiGroup(h[nestedForm].label, newPath,
                                         getGroupFormElements(prop.properties, newPath))
                            ELSE processObject(h, fs, prop, newPath, nestedForm)
                  ELSE UiControl(cleanScopePath(newPath))
       IN <<one>> \o objectEntries(h, fs, Tail(properties), path)

\* the root entries with the properties of type array left without an entry
RECURSIVE rootElementsNoArrays(_, _, _)
rootElementsNoArrays(h, fs, properties) ==
  IF properties = <<>> THEN <<>>
  ELSE (IF Head(properties).value.type = "array" THEN <<>>
        ELSE <<UiControl(cleanScopePath(StrPropsPrefix \o Head(properties).key))>>)
       \o rootElementsNoArrays(h, fs, Tail(properties))

\* the map over Object.entries(schema.properties) and the filter(Boolean)
RECURSIVE rootElements(_, _, _)
rootElements(h, fs, properties) ==
  IF properties = <<>> THEN <<>>
  ELSE LET key == Head(properties).key
           prop == Head(properties).value
           path == StrPropsPrefix \o key
           form == FindForm(h, fs, key)
           one ==
             IF prop.type = "array"
             THEN processArrays(h, fs, prop, path, form)
             ELSE IF IsObjectWithProperties(prop)
                  THEN IF FormTypeOf(h, form) = "simple"
                       THEN UiDetailControl(cleanScopePath(path), "VerticalLayout",
                                            getSimpleFormElements(prop.properties))
                       ELSE IF FormTypeOf(h, form) = "group"
                            THEN UiGroup(h[form].label, path,
                                         getGroupFormElements(prop.properties, path))
                            ELSE processObject(h, fs, prop, path, form)
                  ELSE UiControl(cleanScopePath(path))
       IN (IF one.type # "null" THEN <<one>> ELSE <<>>)
          \o rootElements(h, fs, Tail(properties))

\* generateUiSchema(schema): { type: 'VerticalLayout', elements: rootElements }
generateUiSchema(h, fs, sch) ==
  [type |-> "VerticalLayout", elements |-> rootElements(h, fs, sch.properties)]

\* the uischema handed to the renderer
uischema == generateUiSchema(heap, forms, schema)

(***************************************************************************)
(* The user interface: which handler a click can reach, and with what      *)
(***************************************************************************)

\* some card on screen shows the form editor
FormEditorShown == \E f \in Cards : FormCardEditing(f)

\* the open cards with an element that shows the element editor
ElementEditorCards ==
  {f \in OpenCards : \E i \in DOMAIN heap[f].elements : ElementEditing(heap[f].elements[i])}

Init ==
  /\ session \in Sessions
  /\ heap = <<>>
  /\ forms = <<>>
  /\ currentPath = <<>>
  /\ editingForm = NoEditForm
  /\ editingElement = NoEditElement
  /\ selectedElementType = "string"
  /\ last = LastOp("init", <<>>, <<>>, NoId, NoId, 0)

\* the Add Form button, with the form type the select holds
AddForm == \E t \in session.formTypes, b \in session.baseNames : addForm(t, b)

\* the select of an open card: handleElementTypeChange.  The one value is
\* shared by all cards; "object" is offered by the card of an array or
\* group form only.
SelectElementType ==
  \E f \in OpenCards, t \in session.elementTypes :
    /\ last.op # "overflow"
    /\ t # selectedElementType
    /\ t = "object" => heap[f].formType = "array" \/ heap[f].formType = "group"
    /\ selectedElementType' = t
    /\ last' = LastOp("setSelectedElementType", <<>>, <<>>, NoId, NoId, 0)
    /\ UNCHANGED <<heap, forms, currentPath, editingForm, editingElement, session>>

\* the add button of an open card: addElement(form), with the value the
\* select holds
AddElement ==
  \E f \in OpenCards, b \in session.baseNames :
    /\ selectedElementType \in session.elementTypes
    /\ addElement(f, b)

\* the edit button of an open card: setEditingForm(form)
EditForm ==
  \E f \in OpenCards :
    /\ ~session.adding
    /\ Commit(heap, forms, currentPath, RefEditForm(f), editingElement,
           LastOp("setEditingForm", <<>>, <<>>, NoId, NoId, 0))

\* the Form Label field: setEditingForm({...editingForm, label})
TypeFormLabel ==
  \E label \in session.formLabels :
    /\ FormEditorShown
    /\ Commit(heap, forms, currentPath, CopyEditForm([EF EXCEPT !.label = label]),
              editingElement, LastOp("typeFormLabel", <<>>, <<>>, NoId, NoId, 0))

\* the Layout select of an array form: setEditingForm({...editingForm, layout})
SelectLayout ==
  \E layout \in Layouts :
    /\ FormEditorShown
    /\ EF.formType = "array"
    /\ Commit(heap, forms, currentPath, CopyEditForm([EF EXCEPT !.layout = layout]),
              editingElement, LastOp("selectLayout", <<>>, <<>>, NoId, NoId, 0))

\* Save in the form editor: updateForm(editingForm)
SaveForm == FormEditorShown /\ updateForm(EF)

\* Cancel in the form editor: setEditingForm(null)
CancelForm ==
  /\ ~session.adding
  /\ FormEditorShown
  /\ Commit(heap, forms, currentPath, NoEditForm, editingElement,
            LastOp("cancelForm", <<>>, <<>>, NoId, NoId, 0))

\* the delete button of an open card
DeleteForm == \E f \in OpenCards : deleteForm(heap[f].key)

\* the edit button of an element: setEditingElement(element)
EditElement ==
  \E f \in OpenCards :
    \E i \in DOMAIN heap[f].elements :
      LET element == heap[f].elements[i]
      IN /\ element.type \in session.edited
         /\ ~ElementEditing(element)
         /\ Commit(heap, forms, currentPath, editingForm, SetEditElement(element),
                   LastOp("setEditingElement", <<>>, <<>>, NoId, NoId, 0))

\* the Element Label field: setEditingElement({...editingElement, label})
TypeElementLabel ==
  \E label \in session.elementLabels :
    /\ ElementEditorCards # {}
    /\ Commit(heap, forms, currentPath, editingForm,
              SetEditElement([editingElement.val EXCEPT !.label = label]),
              LastOp("typeElementLabel", <<>>, <<>>, NoId, NoId, 0))

\* the Required checkbox: setEditingElement({...editingElement, required})
CheckRequired ==
  \E checked \in BOOLEAN :
    /\ ElementEditorCards # {}
    /\ Commit(heap, forms, currentPath, editingForm,
              SetEditElement([editingElement.val EXCEPT !.required = checked]),
              LastOp("checkRequired", <<>>, <<>>, NoId, NoId, 0))

\* Save in the element editor of a card: updateElement(form, editingElement)
SaveElement == \E f \in ElementEditorCards : updateElement(f, editingElement.val)

\* Cancel in the element editor: setEditingElement(null)
CancelElement ==
  /\ ElementEditorCards # {}
  /\ Commit(heap, forms, currentPath, editingForm, NoEditElement,
            LastOp("cancelElement", <<>>, <<>>, NoId, NoId, 0))

\* the delete button of an element
DeleteElement ==
  \E f \in OpenCards :
    \E i \in DOMAIN heap[f].elements :
      /\ ~ElementEditing(heap[f].elements[i])
      /\ deleteElement(f, heap[f].elements[i].key)

\* a click on an element of type object: handleElementClick(element)
ClickElement ==
  \E f \in OpenCards :
    \E i \in DOMAIN heap[f].elements :
      LET element == heap[f].elements[i]
      IN /\ ~ElementEditing(element)
         /\ element.type = "object"
         /\ IsFormElement(element)
         /\ navigateToForm(element.form)

\* the Back button
NavigateBack == Len(currentPath) > 0 /\ navigateBack

\* a breadcrumb button
JumpTo == \E index \in 0 .. Len(currentPath) - 1 : jumpTo(index)

\* the Root button
ResetPath == Len(currentPath) > 0 /\ resetPath

Next ==
  \/ AddForm
  \/ SelectElementType
  \/ AddElement
  \/ EditForm
  \/ TypeFormLabel
  \/ SelectLayout
  \/ SaveForm
  \/ CancelForm
  \/ DeleteForm
  \/ EditElement
  \/ TypeElementLabel
  \/ CheckRequired
  \/ SaveElement
  \/ CancelElement
  \/ DeleteElement
  \/ ClickElement
  \/ NavigateBack
  \/ JumpTo
  \/ ResetPath

Spec == Init /\ [][Next]_vars

(***************************************************************************)
(* generateFormSchema on its own: a root form and one form it may embed,   *)
(* with elements of every type, and the fragment built for each of them    *)
(***************************************************************************)

\* the most elements the root form of a fragment run holds
MaxFragElems == 2

\* "Ab c"
LabelAbC == <<65, 98, 32, 99>>

FragLabels == {LabelAbC, LabelAB}

ElementTypes == {"string", "number", "boolean", "date", "object", "array"}

\* the elements a form may hold: of every type, an object element embedding
\* the form of identity 2 under that form's key, its own label free
FragElements(nestedKey) ==
  {Element(t, l, deriveKey(l), r, NoId) :
     t \in ElementTypes \ {"object"}, l \in FragLabels, r \in BOOLEAN}
  \cup {Element("object", l, nestedKey, r, 2) : l \in FragLabels, r \in BOOLEAN}

\* the sequences of at most n members of S
RECURSIVE SeqsUpTo(_, _)
SeqsUpTo(S, n) ==
  IF n = 0 THEN {<<>>}
  ELSE LET shorter == SeqsUpTo(S, n - 1)
       IN shorter \cup {Append(q, x) : q \in {t \in shorter : Len(t) = n - 1}, x \in S}

\* the form a fragment run embeds: of any kind, empty or with one required element
FragNested ==
  {FormField(t, LabelAB, deriveKey(LabelAB), els, ParentRef(1), "undefined") :
     t \in FormTypes,
     els \in {<<>>, <<Element("string", LabelAbC, deriveKey(LabelAbC), TRUE, NoId)>>}}

\* the heap of a fragment run: the root form, then the form it may embed
FragHeap(t, els, nested) ==
  <<FormField(t, LabelAbC, deriveKey(LabelAbC), els, NoParent, "vertical"), nested>>

InitFragment ==
  /\ session = Session("fragment", 2, 1, MaxFragElems, {}, FormTypes, ElementTypes, {}, {},
                       {}, FALSE)
  /\ \E nested \in FragNested, t \in FormTypes :
       \E els \in SeqsUpTo(FragElements(nested.key), MaxFragElems) :
         heap = FragHeap(t, els, nested)
  /\ forms = <<1>>
  /\ currentPath = <<>>
  /\ editingForm = NoEditForm
  /\ editingElement = NoEditElement
  /\ selectedElementType = "string"
  /\ last = [op |-> "init", form |-> NoId, out |-> ObjectSchema(<<>>, <<>>, <<>>)]

\* generateFormSchema(form) is called, once in a run, and its result kept
BuildFragment ==
  \E form \in DOMAIN heap :
    /\ last.op = "init"
    /\ last' = [op |-> "generateFormSchema", form |-> form,
                out |-> generateFormSchema(heap, form)]
    /\ UNCHANGED <<heap, forms, currentPath, editingForm, editingElement, selectedElementType,
                 session>>

NextFragment == BuildFragment

SpecFragment == InitFragment /\ [][NextFragment]_vars

(***************************************************************************)
(* What the claims speak of                                                *)
(***************************************************************************)

\* the forms of the form tree: the root forms and every form embedded below
TreeForms == HeldBy(heap, Range(forms))

\* the forms of the form tree that an element embeds
EmbeddedForms == UNION {Range(RefsOf(heap[f])) : f \in TreeForms}

\* the own properties of a schema node: of an object, or of an array's items
PropsOfNode(node) ==
  IF "properties" \in node.has THEN node.properties
  ELSE IF IsArrayOfObjects(node) THEN node.items[1].properties ELSE <<>>

\* every property of a properties object, at any depth
RECURSIVE PropsBelow(_)
PropsBelow(props) ==
  UNION {{props[i]} \cup PropsBelow(PropsOfNode(props[i].value)) : i \in DOMAIN props}

\* how many properties are keyed key, at any depth
RECURSIVE CountKeyed(_, _)
CountKeyed(props, key) ==
  IF props = <<>> THEN 0
  ELSE (IF Head(props).key = key THEN 1 ELSE 0)
       + CountKeyed(PropsOfNode(Head(props).value), key)
       + CountKeyed(Tail(props), key)

\* every node of a presentation schema, at any depth
RECURSIVE UiBelow(_)
UiBelow(nodes) ==
  UNION {{nodes[i]} \cup UiBelow(nodes[i].elements)
           \cup (IF nodes[i].detail # <<>> THEN UiBelow(nodes[i].detail[1].elements) ELSE {}) :
         i \in DOMAIN nodes}

UiNodes == UiBelow(uischema.elements)

\* the scope names the property key: its last segment is key
ScopeNames(scope, key) ==
  LET parts == SplitOn(scope, 47, <<>>) IN parts[Len(parts)] = key

\* how often x occurs in a sequence
Count(seq, x) == Cardinality({i \in DOMAIN seq : seq[i] = x})

\* after is before with exactly one entry taken out
RemovedOne(before, after) ==
  \E i \in DOMAIN before :
    after = SubSeq(before, 1, i - 1) \o SubSeq(before, i + 1, Len(before))

\* the keys are apart: no form is held twice by the root collection, no two
\* forms of the form tree share a key, no two elements of one form share one
KeysApart ==
  /\ Cardinality(Range(forms)) = Len(forms)
  /\ \A f, g \in TreeForms : f # g => heap[f].key # heap[g].key
  /\ \A f \in TreeForms :
       \A i, j \in DOMAIN heap[f].elements :
         i # j => heap[f].elements[i].key # heap[f].elements[j].key

\* the fragment of every form listed by getCurrentForms, in order
CardFragments ==
  [i \in DOMAIN getCurrentForms |-> generateFormSchema(heap, getCurrentForms[i])]

(***************************************************************************)
(* C1                                                                      *)
(***************************************************************************)

\* C1: in every reachable state every form of the form tree has
\* key = deriveKey(label) and every element of the form tree has
\* key = deriveKey(label), also after updateElement saved an edited label.
\* Refuted: updateElement installs the edited label under the old key.
C1_KeysDerived ==
  \A f \in TreeForms :
    /\ heap[f].key = deriveKey(heap[f].label)
    /\ \A i \in DOMAIN heap[f].elements :
         heap[f].elements[i].key = deriveKey(heap[f].elements[i].label)

(***************************************************************************)
(* C2                                                                      *)
(***************************************************************************)

\* the label was edited: the key derived from it is not the key saved under
LabelEdited == deriveKey(last.label) # last.key

\* C2: after updateForm(f), f saved under the key last.key with the label
\* last.label, the updated node is last.id: it carries the label and the key
\* derived from it; every element of the form tree that embeds it carries
\* that label and that key; every path entry that had the old key is the
\* updated node; and, the label being edited, no path entry holds the old
\* key and an element that holds it embeds a form that has this key itself.
C2_UpdateFormPropagates ==
  last.op = "updateForm" =>
    /\ last.id # NoId =>
         /\ heap[last.id].label = last.label
         /\ heap[last.id].key = deriveKey(last.label)
    /\ \A f \in TreeForms :
         \A i \in DOMAIN heap[f].elements :
           LET element == heap[f].elements[i]
           IN /\ (element.form # NoId /\ element.form = last.id) =>
                   /\ element.label = last.label
                   /\ element.key = deriveKey(last.label)
              /\ (LabelEdited /\ element.key = last.key /\ element.form # NoId) =>
                   heap[element.form].key = last.key
    /\ \A i \in DOMAIN currentPath :
         /\ heap[currentPath[i]].key = last.key => currentPath[i] = last.id
         /\ LabelEdited => heap[currentPath[i]].key # last.key

\* C2 witness: updateForm saved an edited label while the path was not
\* empty, and an element of the form tree embeds the updated node
C2_Witness ==
  /\ last.op = "updateForm"
  /\ LabelEdited
  /\ Len(currentPath) > 0
  /\ \E f \in TreeForms :
       \E i \in DOMAIN heap[f].elements : heap[f].elements[i].form = last.id

(***************************************************************************)
(* C3                                                                      *)
(***************************************************************************)

\* C3: right after addForm with a non-empty path the tail of the path is a
\* node of the form tree, and the structural schema holds, inside a
\* fragment keyed by the tail's key, a property keyed by the new form's key.
\* Refuted: after an updateForm saved with a non-empty path the tail is a
\* copy outside the tree, and addForm appends to the copy.
C3_AddFormReachesSchema ==
  (last.op = "addForm" /\ Len(currentPath) > 0) =>
    /\ Last(currentPath) \in TreeForms
    /\ \E p \in PropsBelow(schema.properties) :
         /\ p.key = heap[Last(currentPath)].key
         /\ Has(PropsOfNode(p.value), heap[last.id].key)

(***************************************************************************)
(* C4                                                                      *)
(***************************************************************************)

\* C4: a step of deleteForm(key) takes exactly one form out of the forms
\* getCurrentForms lists and leaves the fragments of the others as they
\* were; the structural schema loses a property keyed key (at the root,
\* exactly that one property), and at the root the presentation schema
\* loses exactly one branch.
\* Refuted: every root form with that key goes, and below a path tail that
\* is a copy outside the tree the schema loses nothing.
C4_DeleteFormRemovesOne ==
  [][last'.op = "deleteForm" =>
       /\ RemovedOne(CardFragments, CardFragments')
       /\ CountKeyed(schema'.properties, last'.key)
            < CountKeyed(schema.properties, last'.key)
       /\ Len(currentPath) = 0 =>
            /\ RemovedOne(schema.properties, schema'.properties)
            /\ RemovedOne(uischema.elements, uischema'.elements)]_vars

(***************************************************************************)
(* C5                                                                      *)
(***************************************************************************)

\* the root forms without a parent
ParentlessRoots == {f \in Range(forms) : ~heap[f].parent.set}

\* C5: in one generateJsonSchema build generateFormSchema is invoked
\* exactly once on every parentless root form and on every form embedded
\* below one; stated for the states where the keys are apart, where no
\* form is skipped for sharing the key of a form processed before.
\* Refuted: the fragment of an embedded form is built inside the fragment of
\* each form above it and once more by its own processForm.
C5_EachFormBuiltOnce ==
  KeysApart =>
    \A f \in HeldBy(heap, ParentlessRoots) : Count(JsonBuild(heap, forms).built, f) = 1

(***************************************************************************)
(* C6                                                                      *)
(***************************************************************************)

\* the Group shape of form f: a Group labelled with f's label, scoped at f's
\* key, with one plain Control per property of f's fragment
GroupShape(n, f) ==
  /\ n.type = "Group"
  /\ n.label = heap[f].label
  /\ ScopeNames(n.scope, heap[f].key)
  /\ Len(n.elements) = Len(PropsOfNode(generateFormSchema(heap, f)))
  /\ \A i \in DOMAIN n.elements : n.elements[i].type = "Control" /\ n.elements[i].detail = <<>>

\* the Simple shape of form f: one Control scoped at f's key with a detail
\* VerticalLayout
SimpleShape(n, f) ==
  /\ n.type = "Control"
  /\ ScopeNames(n.scope, heap[f].key)
  /\ n.detail # <<>>
  /\ n.detail[1].type = "VerticalLayout"

\* C6: every embedded form of kind group has a node of the Group shape in
\* the presentation schema and none of the Simple shape; every embedded form
\* of kind simple has one of the Simple shape and none of the Group shape.
\* Refuted: the builder looks a property's form up among the root forms
\* only, so an embedded form is drawn as a plain Control or, below an array
\* form, as a Control with a detail VerticalLayout.
C6_NestedShapes ==
  \A f \in EmbeddedForms :
    /\ heap[f].formType = "group" =>
         /\ \E n \in UiNodes : GroupShape(n, f)
         /\ ~\E n \in UiNodes : SimpleShape(n, f)
    /\ heap[f].formType = "simple" =>
         /\ \E n \in UiNodes : SimpleShape(n, f)
         /\ ~\E n \in UiNodes : GroupShape(n, f)

(***************************************************************************)
(* C7                                                                      *)
(***************************************************************************)

\* C7: for every form of kind array in the form tree the presentation
\* schema holds a Control scoped at the form's key whose detail layout is
\* HorizontalLayout when the form's layout is horizontal and VerticalLayout
\* otherwise; stated for the states where the keys are apart, where a
\* scope names one form only.
\* Refuted: an array form embedded below a group form is drawn as a plain
\* Control, without a detail.
C7_ArrayDetailLayout ==
  KeysApart =>
    \A f \in TreeForms :
      heap[f].formType = "array" =>
        \E n \in UiNodes :
          /\ n.type = "Control"
          /\ ScopeNames(n.scope, heap[f].key)
          /\ n.detail # <<>>
          /\ n.detail[1].type = IF heap[f].layout = "horizontal"
                                THEN "HorizontalLayout" ELSE "VerticalLayout"

(***************************************************************************)
(* C8, C9: the reference fragment                                          *)
(***************************************************************************)

\* the keys of the children, each once, in the order they first occur
RECURSIVE DistinctKeys(_, _)
DistinctKeys(children, seen) ==
  IF children = <<>> THEN <<>>
  ELSE IF Head(children).key \in seen THEN DistinctKeys(Tail(children), seen)
       ELSE <<Head(children).key>>
            \o DistinctKeys(Tail(children), seen \cup {Head(children).key})

\* the child a key stands for: the last one carrying it
ChildKeyed(children, key) ==
  children[CHOOSE i \in DOMAIN children :
             /\ children[i].key = key
             /\ \A j \in i + 1 .. Len(children) : children[j].key # key]

\* the keys of the children with required = true, in order
ReferenceRequired(children) ==
  LET req == SelectSeq(children, LAMBDA c : c.required)
  IN [i \in DOMAIN req |-> req[i].key]

RECURSIVE ReferenceFragment(_, _)
RECURSIVE ReferenceProperty(_, _)
\* the fragment a form is to yield: {type object, title, properties,
\* required?} for simple and group, {type array, title, items: {type object,
\* properties, required?}} for array
ReferenceFragment(h, form) ==
  LET children == h[form].elements
      keys == DistinctKeys(children, {})
      properties == [i \in DOMAIN keys |->
                       Prop(keys[i], ReferenceProperty(h, ChildKeyed(children, keys[i])))]
      required == ReferenceRequired(children)
      owned == {"properties"} \cup (IF required # <<>> THEN {"required"} ELSE {})
  IN IF h[form].formType = "array"
     THEN [type |-> "array", has |-> {"title", "items"}, title |-> h[form].label,
           format |-> "", properties |-> <<>>, required |-> <<>>,
           items |-> <<[type |-> "object", has |-> owned, title |-> <<>>, format |-> "",
                        properties |-> properties, required |-> required, items |-> <<>>]>>]
     ELSE [type |-> "object", has |-> owned \cup {"title"}, title |-> h[form].label,
           format |-> "", properties |-> properties, required |-> required, items |-> <<>>]

\* the property a child is to yield
ReferenceProperty(h, child) ==
  IF child.type = "object" /\ child.form # NoId THEN ReferenceFragment(h, child.form)
  ELSE IF child.type = "array"
       THEN [type |-> "array", has |-> {"title", "items"}, title |-> child.label,
             format |-> "", properties |-> <<>>, required |-> <<>>,
             items |-> <<[type |-> "string", has |-> {}, title |-> <<>>, format |-> "",
                          properties |-> <<>>, required |-> <<>>, items |-> <<>>]>>]
       ELSE IF child.type = "date"
            THEN [type |-> "string", has |-> {"title", "format"}, title |-> child.label,
                  format |-> "date", properties |-> <<>>, required |-> <<>>, items |-> <<>>]
            ELSE [type |-> child.type, has |-> {"title"}, title |-> child.label,
                  format |-> "", properties |-> <<>>, required |-> <<>>, items |-> <<>>]

\* C8: generateFormSchema(form) is the reference fragment of the form's
\* kind: type, title = label, one property per child key, required = the
\* keys of the required children, the required key owned exactly when some
\* child is required.
C8_FragmentIsReference ==
  last.op = "generateFormSchema" => last.out = ReferenceFragment(heap, last.form)

\* C8 witness: the fragment of an array form was built, with a required
\* child and a child that is not required
C8_Witness ==
  /\ last.op = "generateFormSchema"
  /\ heap[last.form].formType = "array"
  /\ \E i, j \in DOMAIN heap[last.form].elements :
       heap[last.form].elements[i].required /\ ~heap[last.form].elements[j].required

\* C9: in the fragment built for a form, the property under the key of an
\* element (of the last element, where two carry one key) is the fragment
\* of its embedded form when its type is object, {type array, items {type
\* string}} when array, {type string, format date} when date, {type = its
\* type} otherwise, titled with the label of the element, or of the
\* embedded form for an object.
C9_PropertyPerElement ==
  last.op = "generateFormSchema" =>
    \A i \in DOMAIN heap[last.form].elements :
      LET element == heap[last.form].elements[i]
          properties == PropsOfNode(last.out)
      IN /\ Has(properties, element.key)
         /\ (\A j \in i + 1 .. Len(heap[last.form].elements) :
               heap[last.form].elements[j].key # element.key) =>
              Get(properties, element.key) = ReferenceProperty(heap, element)

\* C9 witness: the fragment of a form was built that holds a date element
\* and an object element embedding a form
C9_Witness ==
  /\ last.op = "generateFormSchema"
  /\ \E i, j \in DOMAIN heap[last.form].elements :
       /\ heap[last.form].elements[i].type = "date"
       /\ heap[last.form].elements[j].type = "object"
       /\ heap[last.form].elements[j].form # NoId
       /\ heap[last.form].elements[i].key # heap[last.form].elements[j].key

(***************************************************************************)
(* C10                                                                     *)
(***************************************************************************)

\* C10: in every reachable state no root form has a parent and every form
\* an element of the form tree embeds has one; every root form's key is a
\* top-level property of the structural schema.
\* Refuted: updateForm replaces a root form by the saved copy of an embedded
\* form that has the root's key; the copy keeps its parent and is skipped.
C10_ParentUnsetExactlyForRoots ==
  /\ \A f \in Range(forms) : ~heap[f].parent.set
  /\ \A f \in EmbeddedForms : heap[f].parent.set
  /\ \A f \in Range(forms) : Has(schema.properties, heap[f].key)

(***************************************************************************)
(* C11                                                                     *)
(***************************************************************************)

\* the keys of the forms of a list, and of the elements of a list, in order
FormKeys(h, ids) == [i \in DOMAIN ids |-> h[ids[i]].key]
ElementKeys(els) == [i \in DOMAIN els |-> els[i].key]

\* a sequence of keys with each key kept where it first occurs
RECURSIVE FirstKeys(_, _)
FirstKeys(keys, seen) ==
  IF keys = <<>> THEN <<>>
  ELSE IF Head(keys) \in seen THEN FirstKeys(Tail(keys), seen)
       ELSE <<Head(keys)>> \o FirstKeys(Tail(keys), seen \cup {Head(keys)})

\* the root forms that seed the schema, in the order of the root collection
ParentlessRootSeq == SelectSeq(forms, LAMBDA f : ~heap[f].parent.set)

\* the properties props are ordered as the children of form f, and so on
\* below every child that embeds a form
RECURSIVE OrderedAs(_, _)
OrderedAs(props, f) ==
  /\ Keys(props) = FirstKeys(ElementKeys(heap[f].elements), {})
  /\ \A i \in DOMAIN heap[f].elements :
       LET element == heap[f].elements[i]
       IN (element.form # NoId /\ Has(props, element.key)) =>
            OrderedAs(PropsOfNode(Get(props, element.key)), element.form)

\* no form of the form tree below the root forms fs is nested in itself:
\* the tree is finite
TreeFinite(h, fs) == \A f \in Range(fs) : ~SchemaOverflows(h, f)

\* siblings have keys of their own: no two root forms share a key, no two
\* elements of one form of the form tree do
SiblingKeysApart ==
  /\ \A i, j \in DOMAIN forms : i # j => heap[forms[i]].key # heap[forms[j]].key
  /\ \A f \in TreeForms :
       \A i, j \in DOMAIN heap[f].elements :
         i # j => heap[f].elements[i].key # heap[f].elements[j].key

\* the order of the schema is the order of the form tree.  The top-level
\* properties are the parentless root forms in order, the fragment
\* generateFormSchema builds of a form has the form's children in order (a
\* form that holds a form nested in itself has no fragment), and where
\* siblings have keys of their own the same holds at every depth of the
\* finished schema.
SchemaOrdered ==
  /\ Keys(schema.properties) = FirstKeys(FormKeys(heap, ParentlessRootSeq), {})
  /\ \A f \in TreeForms :
       ~SchemaOverflows(heap, f) =>
         Keys(PropsOfNode(generateFormSchema(heap, f)))
           = FirstKeys(ElementKeys(heap[f].elements), {})
  /\ SiblingKeysApart =>
       \A i \in DOMAIN ParentlessRootSeq :
         OrderedAs(PropsOfNode(Get(schema.properties, heap[ParentlessRootSeq[i]].key)),
                   ParentlessRootSeq[i])

\* the places of the form tree: every root form, and below it every element
\* in order, with its key, whether it embeds a form, and the places below
RECURSIVE PlacesOf(_, _)
PlacesOf(h, els) ==
  [i \in DOMAIN els |->
     [key |-> els[i].key, form |-> els[i].form # NoId,
      below |-> IF els[i].form # NoId THEN PlacesOf(h, h[els[i].form].elements) ELSE <<>>]]

RootPlaces(h, fs) ==
  [i \in DOMAIN fs |-> [key |-> h[fs[i]].key, form |-> TRUE,
                        below |-> PlacesOf(h, h[fs[i]].elements)]]

\* the places with every form keyed old standing for the saved node: keyed
\* new, with the saved node's places below
RECURSIVE Rekeyed(_, _, _, _)
Rekeyed(places, old, new, saved) ==
  [i \in DOMAIN places |->
     IF places[i].form /\ places[i].key = old
     THEN [key |-> new, form |-> TRUE, below |-> saved]
     ELSE [places[i] EXCEPT !.below = Rekeyed(places[i].below, old, new, saved)]]

\* a step of updateForm keeps every form and every element of the form tree
\* at its place: the places are those of before, the saved form standing
\* where a form with its key stood.  The places of a tree are compared
\* where the tree is finite.
PlacesKept ==
  (last'.op = "updateForm" /\ TreeFinite(heap, forms) /\ TreeFinite(heap', forms')) =>
    RootPlaces(heap', forms')
      = Rekeyed(RootPlaces(heap, forms), last'.key, deriveKey(last'.label),
                PlacesOf(heap', heap'[last'.id].elements))

\* C11: in every reachable state the top-level properties of the structural
\* schema are ordered as the root forms that seed it, the properties of
\* every form's fragment are ordered as the form's children (a key that
\* occurs twice standing where it occurs first), at every depth of the
\* schema, and every step of updateForm keeps the renamed form at its place
\* among its siblings, as it keeps every other form and element.
\* Refuted: a parentless root form whose key is the key of a form nested
\* below an earlier root form is skipped by processForm, its key being in
\* processedForms; the top-level properties then lack it, though no two
\* root forms share a key.
C11_OrderKept == [](SchemaOrdered) /\ [][PlacesKept]_vars

(***************************************************************************)
(* C12                                                                     *)
(***************************************************************************)

\* the keys of the forms, and of the elements, of the form tree
TreeFormKeys == {heap[f].key : f \in TreeForms}
TreeElementKeys ==
  UNION {{heap[f].elements[i].key : i \in DOMAIN heap[f].elements} : f \in TreeForms}

\* C12: after a step of deleteForm or deleteElement editingForm is not a
\* form whose key the step took out of the form tree, and editingElement is
\* not an element whose key the step took out of the form tree.
\* Refuted: deleteForm leaves editingElement on an element of the removed
\* form, deleteElement leaves editingForm on the form removed with its
\* element.
C12_EditStateCleared ==
  [][last'.op \in {"deleteForm", "deleteElement"} =>
       /\ editingForm'.st # "null" => EF'.key \notin (TreeFormKeys \ TreeFormKeys')
       /\ editingElement'.st # "null" =>
            editingElement'.val.key \notin (TreeElementKeys \ TreeElementKeys')]_vars

(***************************************************************************)
(* C13                                                                     *)
(***************************************************************************)

\* the contents of forms and elements: labels, keys, kinds, required flags
\* and children in order, whatever the identities of the objects
RECURSIVE FormContents(_, _)
RECURSIVE ElementContents(_, _)
FormContents(h, f) ==
  [formType |-> h[f].formType, label |-> h[f].label, key |-> h[f].key,
   elements |-> ElementContents(h, h[f].elements)]

ElementContents(h, els) ==
  [i \in DOMAIN els |->
     [type |-> els[i].type, label |-> els[i].label, key |-> els[i].key,
      required |-> els[i].required,
      form |-> IF els[i].form # NoId THEN <<FormContents(h, els[i].form)>> ELSE <<>>]]

TreeContents(h, fs) == [i \in DOMAIN fs |-> FormContents(h, fs[i])]

\* the keys of the forms the path entries hold, the entries included
PathFormKeys == {heap[f].key : f \in HeldBy(heap, Range(currentPath))}


\* the form tree, the path and both schemas are as they were
ContentsKept ==
  /\ TreeContents(heap', forms') = TreeContents(heap, forms)
  /\ TreeContents(heap', currentPath') = TreeContents(heap, currentPath)
  /\ schema' = schema
  /\ uischema' = uischema

(***************************************************************************)
(* The handlers called with stale references: a form and an element that   *)
(* were on screen once and are in no collection any more                   *)
(***************************************************************************)

MaxObjsCalls == 4
MaxElemsCalls == 1

CallSessions ==
  { Session("calls", MaxObjsCalls, 1, MaxElemsCalls, {BigRed},
            {"group"}, {"object"}, {}, {"object"}, {LabelAB}, FALSE) }

InitCalls ==
  /\ session \in CallSessions
  /\ heap = <<>>
  /\ forms = <<>>
  /\ currentPath = <<>>
  /\ editingForm = NoEditForm
  /\ editingElement = NoEditElement
  /\ selectedElementType = "string"
  /\ last = LastOp("init", <<>>, <<>>, NoId, NoId, 0)

\* a form and an element generated under a name no live node has
StaleForm ==
  LET name == generateElementName("group", ShyTan)
  IN FormField("group", name.label, name.key, <<>>, NoParent, "vertical")

StaleElement ==
  LET name == generateElementName("string", ShyTan)
  IN Element("string", name.label, name.key, FALSE, NoId)

\* updateForm(updatedForm) with a form whose key no form has
StaleUpdateForm ==
  /\ StaleForm.key \notin TreeFormKeys \cup PathFormKeys
  /\ updateForm(StaleForm)

\* updateElement(form, updatedElement) with an element whose key no element of form has
StaleUpdateElement ==
  \E f \in Cards :
    /\ \A i \in DOMAIN heap[f].elements : heap[f].elements[i].key # StaleElement.key
    /\ updateElement(f, StaleElement)

\* deleteForm(key) with a key no form of the level on screen has
StaleDeleteForm ==
  /\ \A i \in DOMAIN getCurrentForms : heap[getCurrentForms[i]].key # StaleForm.key
  /\ deleteForm(StaleForm.key)

\* deleteElement(form, elementKey) with a key no element of form has
StaleDeleteElement ==
  \E f \in Cards :
    /\ \A i \in DOMAIN heap[f].elements : heap[f].elements[i].key # StaleElement.key
    /\ deleteElement(f, StaleElement.key)

\* navigateBack() with nothing to go back to
StaleNavigateBack == Len(currentPath) = 0 /\ navigateBack

StaleCall ==
  \/ StaleUpdateForm
  \/ StaleUpdateElement
  \/ StaleDeleteForm
  \/ StaleDeleteElement

NextCalls ==
  \/ AddForm
  \/ SelectElementType
  \/ AddElement
  \/ SaveForm
  \/ DeleteForm
  \/ EditElement
  \/ TypeElementLabel
  \/ SaveElement
  \/ DeleteElement
  \/ ClickElement
  \/ NavigateBack
  \/ StaleUpdateForm
  \/ StaleUpdateElement
  \/ StaleDeleteForm
  \/ StaleDeleteElement
  \/ StaleNavigateBack

SpecCalls == InitCalls /\ [][NextCalls]_vars

\* C13: a step of updateForm, updateElement, deleteForm or deleteElement
\* whose key matches no node of its scope leaves the contents of the form
\* tree, the contents of the navigation path and both schemas as they were.
\* Refuted: updateForm rewrites the label of every element that embeds a
\* form to the label of that form, whether or not its key was found.
C13_MissIsNoOp == [][StaleCall => ContentsKept]_vars

(***************************************************************************)
(* C14                                                                     *)
(***************************************************************************)

\* the key of every form of the form tree is the key derived from its
\* label, and of every element that embeds a form the key of that form
KeyFromLabel ==
  \A f \in TreeForms :
    /\ heap[f].key = deriveKey(heap[f].label)
    /\ \A i \in DOMAIN heap[f].elements :
         LET element == heap[f].elements[i]
         IN element.form # NoId => element.key = heap[element.form].key

\* the labels and keys generateElementName returns in this session
GeneratedNames ==
  {generateElementName(t, b) : t \in FormTypes \cup {"object"}, b \in session.baseNames}

\* a form that carries a generated label has the key generated with it
GeneratedKeyKept ==
  \A f \in TreeForms :
    \A name \in GeneratedNames :
      heap[f].label = name.label =>
        /\ heap[f].key = name.key
        /\ \A g \in TreeForms :
             \A i \in DOMAIN heap[g].elements :
               heap[g].elements[i].form = f => heap[g].elements[i].key = name.key

\* C14: in every reachable state, whatever handlers ran before, the key of
\* a form of the form tree is a function of its label alone, and the
\* element that embeds it has that key: a form renamed with updateForm from
\* L1 to L2 and back to L1 has, as its element has, the key it had under
\* L1, the key it was generated with if L1 is the label it was generated with.
C14_RenameBackSameKey == KeyFromLabel /\ GeneratedKeyKept

\* C14 witness: a nested form generated as "Big Red Form", saved as "a.b"
\* and saved again as "Big Red Form", has the generated key again, and so
\* has its element; no other form of the tree has that key
C14_Witness ==
  /\ KeysApart
  /\ last.op = "updateForm"
  /\ last.key = deriveKey(LabelAB)
  /\ last.label = LabelBigRedForm
  /\ heap[last.id].key = generateElementName("group", BigRed).key
  /\ \E f \in TreeForms :
       \E i \in DOMAIN heap[f].elements :
         /\ heap[f].elements[i].form = last.id
         /\ heap[f].elements[i].key = generateElementName("group", BigRed).key

(***************************************************************************)
(* getCurrentForms on its own: a root form, the form it embeds with        *)
(* elements that embed two more forms, and a path into them                *)
(***************************************************************************)

\* the most elements the embedded form of a cards run holds
MaxCardElems == 2

\* the elements the embedded form may hold: a string element, and object
\* elements that embed the forms of identity 3 and 4
CardElements ==
  LET plain == generateElementName("string", BigRed)
      third == generateElementName("object", BigRed)
      fourth == generateElementName("object", ShyTan)
  IN {Element("string", plain.label, plain.key, FALSE, NoId),
      Element("object", third.label, third.key, FALSE, 3),
      Element("object", fourth.label, fourth.key, FALSE, 4)}

\* the heap of a cards run: the root form, the form it embeds, of kind t
\* with the elements els, and the two forms those may embed
CardHeap(t, els) ==
  LET root == generateElementName("group", ShyTan)
      second == generateElementName("simple", BigRed)
      third == generateElementName("object", BigRed)
      fourth == generateElementName("object", ShyTan)
  IN <<FormField("group", root.label, root.key,
                 <<Element("object", second.label, second.key, FALSE, 2)>>, NoParent, "vertical"),
       FormField(t, second.label, second.key, els, ParentRef(1), "vertical"),
       FormField("group", third.label, third.key, <<>>, ParentRef(2), "undefined"),
       FormField("group", fourth.label, fourth.key, <<>>, ParentRef(2), "undefined")>>

\* the paths of a cards run: every entry after the first is embedded by
\* the entry before it
CardPaths(els) ==
  {<<>>, <<2>>} \cup {<<2, 3>> : x \in {i \in DOMAIN els : els[i].form = 3}}

InitCards ==
  /\ session = Session("cards", 4, 1, MaxCardElems, {BigRed, ShyTan}, FormTypes,
                       {"string", "object"}, {}, {}, {}, FALSE)
  /\ \E t \in FormTypes, els \in SeqsUpTo(CardElements, MaxCardElems) :
       /\ heap = CardHeap(t, els)
       /\ currentPath \in CardPaths(els)
  /\ forms = <<1>>
  /\ editingForm = NoEditForm
  /\ editingElement = NoEditElement
  /\ selectedElementType = "string"
  /\ last = [op |-> "init", out |-> <<>>]

\* getCurrentForms() is called, once in a run, and its result kept
ListCards ==
  /\ last.op = "init"
  /\ last' = [op |-> "getCurrentForms", out |-> getCurrentForms]
  /\ UNCHANGED <<heap, forms, currentPath, editingForm, editingElement, selectedElementType,
                 session>>

NextCards == ListCards

SpecCards == InitCards /\ [][NextCards]_vars

(***************************************************************************)
(* C15                                                                     *)
(***************************************************************************)

\* the embedded forms of the object-typed elements among els, in child order
RECURSIVE ObjectForms(_)
ObjectForms(els) ==
  IF els = <<>> THEN <<>>
  ELSE LET rest == ObjectForms(Tail(els))
       IN IF Head(els).type = "object" /\ Head(els).form # NoId
          THEN <<Head(els).form>> \o rest
          ELSE rest

\* what the claim says getCurrentForms returns
CurrentFormsClaimed ==
  IF currentPath = <<>> THEN forms
  ELSE LET tail == heap[currentPath[Len(currentPath)]]
       IN CASE tail.formType \in {"array", "group"} -> ObjectForms(tail.elements)
            [] tail.formType = "simple" -> <<>>

\* C15: getCurrentForms returns the root forms when the path is empty, the
\* embedded forms of the tail's object-typed elements, in child order, when
\* the tail is of kind array or group, and the empty sequence when the tail
\* is of kind simple.
C15_CurrentForms ==
  /\ getCurrentForms = CurrentFormsClaimed
  /\ last.op = "getCurrentForms" => last.out = CurrentFormsClaimed

\* C15 witness: getCurrentForms returned nothing for a tail of kind simple
\* whose elements embed two forms
C15_Witness ==
  /\ last.op = "getCurrentForms"
  /\ currentPath = <<2>>
  /\ heap[2].formType = "simple"
  /\ ObjectForms(heap[2].elements) = <<3, 4>>
  /\ last.out = <<>>

(***************************************************************************)
(* C16                                                                     *)
(***************************************************************************)

\* the sequence without its last entry, the empty sequence if it has none
AllButLast(s) == IF s = <<>> THEN <<>> ELSE SubSeq(s, 1, Len(s) - 1)

\* which entries of the path are forms of the form tree
PathInTree(h, fs, cp) == [i \in DOMAIN cp |-> cp[i] \in HeldBy(h, Range(fs))]

\* C16: a step of navigateBack takes exactly the last entry off the path:
\* the entries before it are the forms they were, in the order they were
\* in; on an empty path the path stays empty; the form tree is as it was.
C16_BackPopsLast ==
  [][last'.op = "navigateBack" =>
       /\ Len(currentPath') = Len(AllButLast(currentPath))
       /\ TreeContents(heap', currentPath') = AllButLast(TreeContents(heap, currentPath))
       /\ PathInTree(heap', forms', currentPath')
            = AllButLast(PathInTree(heap, forms, currentPath))
       /\ currentPath = <<>> => currentPath' = <<>>
       /\ TreeContents(heap', forms') = TreeContents(heap, forms)
       /\ forms' = forms]_vars

\* C16 witness: navigateBack left an entry on the path, the form the root
\* form embeds
C16_Witness ==
  /\ last.op = "navigateBack"
  /\ Len(currentPath) = 1
  /\ \E i \in DOMAIN heap[forms[1]].elements :
       heap[forms[1]].elements[i].form = currentPath[1]

(***************************************************************************)
(* C17                                                                     *)
(***************************************************************************)

\* the property keys a scope names: '#/properties/a/properties/b' names a, b
ScopeKeys(scope) ==
  LET parts == SplitOn(scope, 47, <<>>)
  IN [i \in 1 .. ((Len(parts) - 1) \div 2) |-> parts[2 * i + 1]]

\* the schema node a sequence of property keys leads to from props, as a
\* sequence of one node, or of none if a key is missing
RECURSIVE ScopeTarget(_, _)
ScopeTarget(props, keys) ==
  IF keys = <<>> \/ ~Has(props, Head(keys)) THEN <<>>
  ELSE IF Len(keys) = 1 THEN <<Get(props, Head(keys))>>
       ELSE ScopeTarget(PropsOfNode(Get(props, Head(keys))), Tail(keys))

\* the plain controls of the presentation schema that address a scalar property
ScalarControls ==
  {n \in UiNodes :
     /\ n.type = "Control"
     /\ n.detail = <<>>
     /\ StartsWith(n.scope, StrPropsPrefix)
     /\ LET target == ScopeTarget(schema.properties, ScopeKeys(n.scope))
        IN target # <<>> /\ target[1].type \notin {"object", "array"}}

\* C17: every plain control emitted for a scalar property has the scope
\* '#/properties/<leaf-key>', which names the property and no ancestor.
\* Refuted: the controls inside a Group node are scoped below the group:
\* '#/properties/<group-key>/properties/<leaf-key>'.
C17_LeafScopes ==
  \A n \in ScalarControls : n.scope = StrPropsPrefix \o Last(ScopeKeys(n.scope))

(***************************************************************************)
(* C18                                                                     *)
(***************************************************************************)

\* the contents of a form saved under a new label: its label and key, and
\* nothing else
Relabelled(fc, label) == [fc EXCEPT !.label = label, !.key = deriveKey(label)]

\* the contents a form may have after one form keyed key somewhere below it
\* was saved under label, and the element that embeds that form was given
\* its label and key: everything else is as it was
RECURSIVE InnerVariants(_, _, _)
RECURSIVE ElementsVariants(_, _, _)
InnerVariants(fc, key, label) ==
  {[fc EXCEPT !.elements = els] : els \in ElementsVariants(fc.elements, key, label)}

ElementsVariants(els, key, label) ==
  UNION {
    IF els[i].form = <<>> THEN {}
    ELSE (IF els[i].form[1].key = key
          THEN {[els EXCEPT ![i] = [els[i] EXCEPT !.label = label,
                                                  !.key = deriveKey(label),
                                                  !.form = <<Relabelled(els[i].form[1], label)>>]]}
          ELSE {})
         \cup {[els EXCEPT ![i] = [els[i] EXCEPT !.form = <<v>>]] :
                 v \in InnerVariants(els[i].form[1], key, label)} :
    i \in DOMAIN els}

\* the contents the form tree may have after one of its forms keyed key was
\* saved under label
TreeVariants(tree, key, label) ==
  UNION {
    (IF tree[i].key = key THEN {[tree EXCEPT ![i] = Relabelled(tree[i], label)]} ELSE {})
    \cup {[tree EXCEPT ![i] = v] : v \in InnerVariants(tree[i], key, label)} :
    i \in DOMAIN tree}

\* C18: a step of updateForm(f), f a form of the form tree, changes the
\* label and the key of one form keyed as f and of the element that embeds
\* it; every other form and every other element of the form tree keeps its
\* label, key, kind, required flag and children.
\* Refuted: updateForm replaces every form keyed as f, whatever list it is
\* in, and gives every element that embeds a form the label of that form.
C18_UpdateFormFrame ==
  [][(last'.op = "updateForm" /\ last'.key \in TreeFormKeys) =>
       TreeContents(heap', forms')
         \in TreeVariants(TreeContents(heap, forms), last'.key, last'.label)]_vars

(***************************************************************************)
(* C19                                                                     *)
(***************************************************************************)

\* C19: the root of the presentation schema is a VerticalLayout with one
\* entry per top-level property of the structural schema, in the order of
\* those properties: entry i is a Control or a Group scoped at property i.
C19_RootLayout ==
  /\ uischema.type = "VerticalLayout"
  /\ Len(uischema.elements) = Len(schema.properties)
  /\ \A i \in DOMAIN schema.properties :
       /\ uischema.elements[i].type \in {"Control", "Group"}
       /\ uischema.elements[i].scope = StrPropsPrefix \o schema.properties[i].key

\* C19 witness: two top-level properties of different types, an object and
\* an array, and the two entries of the root layout scoped at them
C19_Witness ==
  /\ Len(schema.properties) = 2
  /\ schema.properties[1].key # schema.properties[2].key
  /\ {schema.properties[1].value.type, schema.properties[2].value.type} = {"object", "array"}
  /\ Len(uischema.elements) = 2
  /\ uischema.elements[2].scope = StrPropsPrefix \o schema.properties[2].key

(***************************************************************************)
(* C20                                                                     *)
(***************************************************************************)

\* C20: in every reachable state the first entry of the path is a form of
\* the root collection and every later entry is the form embedded by an
\* object-typed element of the entry before it.
\* Refuted: addElement of an object element on the card of a root form, and
\* a click on an element of a card, append the embedded form to the path
\* without the form of the card: the first entry is no root form, and an
\* entry is embedded two levels below the entry before it.
C20_PathDescends ==
  /\ currentPath # <<>> => currentPath[1] \in Range(forms)
  /\ \A i \in 2 .. Len(currentPath) :
       currentPath[i] \in Range(ObjectForms(heap[currentPath[i - 1]].elements))

(***************************************************************************)
(* C21                                                                     *)
(***************************************************************************)

\* the holders of the object f: the entries of the root collection that
\* are f, and the elements of the forms of the form tree that embed f
RootHolders(f) == {i \in DOMAIN forms : forms[i] = f}
ElementHolders(f) ==
  UNION {{<<g, i>> : i \in {j \in DOMAIN heap[g].elements : heap[g].elements[j].form = f}} :
         g \in TreeForms}

\* C21: in every reachable state every form object of the form tree has
\* exactly one holder: one entry of the root collection or one element.
\* Refuted: updateForm installs the one updated object wherever a form has
\* the saved key, at two entries of the root collection or at a root entry
\* and below an element.
C21_OneHolder ==
  \A f \in TreeForms : Cardinality(RootHolders(f)) + Cardinality(ElementHolders(f)) = 1

(***************************************************************************)
(* C22                                                                     *)
(***************************************************************************)

\* C22: the parent of a form embedded by an element of a form g designates
\* g: when updateForm saves a form of the root collection under a new label
\* and key, the parent of every form its elements embed is the saved form,
\* with the new label and key.
\* Refuted: updateForm installs a new object for the saved form; the forms
\* below keep the parent they were created with, the object of before the
\* save, with the old label and key.
C22_ParentIsHolder ==
  [][(/\ last'.op = "updateForm"
      /\ last'.id \in Range(forms')
      /\ last'.key # deriveKey(last'.label))
     => \A i \in DOMAIN heap'[last'.id].elements :
          LET f == heap'[last'.id].elements[i].form
          IN f # NoId => heap'[f].parent = ParentRef(last'.id)]_vars

(***************************************************************************)
(* C23                                                                     *)
(***************************************************************************)

\* the key holds the separator on which generateJsonSchema splits a path
HasSeparator(key) == \E i \in DOMAIN key : <<key[i]>> = ChDot

\* C23: no key that the program derives from a label holds the '.' on which
\* generateJsonSchema splits the path of the ancestors: in every reachable
\* state no form of the form tree and none of their elements has a key with
\* a '.' in it, whatever label was typed.
\* Refuted: the key is the lower-cased label with its runs of white space
\* replaced by '-', then '-' and the hash; a '.' of the label stays.
C23_NoSeparatorInKeys ==
  \A f \in TreeForms :
    /\ ~HasSeparator(heap[f].key)
    /\ \A i \in DOMAIN heap[f].elements : ~HasSeparator(heap[f].elements[i].key)

====
